---- MODULE Spec2Model ----
(***************************************************************************)
(* Stickman animator (src/app.js, first variant, lines 1-1542): the        *)
(* keyframe timeline with its undo/redo history, the independent-channel   *)
(* time sampler getPoseAtTime, and the requestAnimationFrame playback      *)
(* loop.                                                                   *)
(*                                                                         *)
(* Units.  Times are integers counting tenths of a second (duration 0.5 s  *)
(* is 5, the substituted total duration 0.1 s is 1, performance.now() and  *)
(* the frame timestamps are counted in the same unit).  Coordinates are    *)
(* integers; interpolated coordinates and eased times are exact rationals  *)
(* <<n, d>> in lowest terms with d > 0 (JavaScript computes the same       *)
(* expressions in binary floating point).                                  *)
(***************************************************************************)
EXTENDS Integers, Sequences, FiniteSets, TLC

VARIABLES
    frames,                 \* State.frames: sequence of [duration, points]
    currentFrameIndex,      \* State.currentFrameIndex (0-based)
    selectedPointIndex,     \* State.selectedPointIndex, Null or 0..11
    stack,                  \* History.stack
    redoStack,              \* History.redoStack
    isPlaying,              \* State.isPlaying
    playbackMode,           \* State.playbackMode
    playStartTime,          \* State.playStartTime
    playCurrentGlobalTime,  \* State.playCurrentGlobalTime
    now,                    \* wall clock: performance.now() / frame timestamp
    pending,                \* playbackLoop callbacks queued by requestAnimationFrame
    draggedPointIndex,      \* State.draggedPointIndex, Null or 0..11
    lastOp,                 \* the step taken last (a handler, or the clock), and how it ended
    sampleTime,             \* argument of the last getPoseAtTime call
    pose,                   \* outcome of the last getPoseAtTime call
    exportOutput,           \* exportOutput.value: the project last exported
    shared,                 \* the sets of places that hold one and the same points array
    isIKEnabled,            \* State.isIKEnabled
    ikDragData,             \* State.ikDragData: NoIkDragData, or the chain being dragged
    interpolation,          \* the activation of interpolatePoints: arguments, loop index, resultPoints
    player                  \* the player page (src/player/player.js): its script state

vars == <<frames, currentFrameIndex, selectedPointIndex, stack, redoStack,
          isPlaying, playbackMode, playStartTime, playCurrentGlobalTime,
          now, pending, draggedPointIndex, lastOp, sampleTime, pose, exportOutput,
          shared, isIKEnabled, ikDragData, interpolation, player>>

editVars   == <<frames, currentFrameIndex, selectedPointIndex, stack, redoStack,
                draggedPointIndex, shared>>
playVars   == <<isPlaying, playbackMode, playStartTime, playCurrentGlobalTime,
                now, pending>>
sampleVars == <<sampleTime, pose>>
ikVars     == <<isIKEnabled, ikDragData>>
standaloneVars == <<interpolation, player>>

-----------------------------------------------------------------------------
(* Bounds of the model *)

MaxFrames == 3      \* longest timeline explored
MaxJoint == 0       \* joints 0..MaxJoint are edited / varied; the rest keep the rest pose
MaxStack == 1       \* deepest undo stack explored
MaxNow == 12        \* last wall-clock instant explored
MaxPending == 2     \* most queued playbackLoop callbacks explored

-----------------------------------------------------------------------------
(* Values *)

Null == -1                      \* JavaScript null, where an index is expected
NoEasing == ""                  \* point without an easing attribute (falsy)

numPoints == 12
PointIds == 0 .. (numPoints - 1)
Joints == 0 .. MaxJoint

Max(S) == CHOOSE m \in S : \A s \in S : s <= m
Min(S) == CHOOSE m \in S : \A s \in S : m <= s

-----------------------------------------------------------------------------
(* Exact rational arithmetic for the values JavaScript computes as Numbers *)

Abs(a) == IF a < 0 THEN -a ELSE a

RECURSIVE GCD(_, _)
GCD(a, b) == IF b = 0 THEN a ELSE GCD(b, a % b)

Rat(n, d) ==
    LET g == GCD(Abs(n), Abs(d))
        s == IF d < 0 THEN -1 ELSE 1
    IN  <<(s * n) \div g, (s * d) \div g>>

R(i) == <<i, 1>>
\* sums over the least common denominator and products of reduced factors,
\* which keep the intermediate integers small
RAdd(p, q) ==
    LET g == GCD(p[2], q[2])
    IN  Rat(p[1] * (q[2] \div g) + q[1] * (p[2] \div g), (p[2] \div g) * q[2])
RSub(p, q) == RAdd(p, <<-q[1], q[2]>>)
RMul(p, q) ==
    LET g1 == GCD(Abs(p[1]), q[2])
        g2 == GCD(Abs(q[1]), p[2])
    IN  Rat((p[1] \div g1) * (q[1] \div g2), (p[2] \div g2) * (q[2] \div g1))
RLt(p, q) == p[1] * q[2] < q[1] * p[2]
RMax(p, q) == IF RLt(p, q) THEN q ELSE p
RMin(p, q) == IF RLt(q, p) THEN q ELSE p

-----------------------------------------------------------------------------
(* Data model: points, poses, frames *)

\* One entry of a frame's points array.  A missing easing attribute is
\* NoEasing, a missing isIgnored attribute is FALSE (both are read only
\* through truthiness tests).  The id of the point at index i is i.
Point(x, y, easing, isIgnored) ==
    [x |-> x, y |-> y, easing |-> easing, isIgnored |-> isIgnored]

getInitialPose ==
    [i \in PointIds |->
        CASE i = 0  -> Point(400, 180, NoEasing, FALSE)
          [] i = 1  -> Point(400, 230, NoEasing, FALSE)
          [] i = 2  -> Point(400, 280, NoEasing, FALSE)
          [] i = 3  -> Point(350, 230, NoEasing, FALSE)
          [] i = 4  -> Point(300, 230, NoEasing, FALSE)
          [] i = 5  -> Point(450, 230, NoEasing, FALSE)
          [] i = 6  -> Point(500, 230, NoEasing, FALSE)
          [] i = 7  -> Point(400, 330, NoEasing, FALSE)
          [] i = 8  -> Point(370, 400, NoEasing, FALSE)
          [] i = 9  -> Point(370, 470, NoEasing, FALSE)
          [] i = 10 -> Point(430, 400, NoEasing, FALSE)
          [] i = 11 -> Point(430, 470, NoEasing, FALSE)]

DefaultDuration == 5            \* 0.5 s

Frame(duration, points) == [duration |-> duration, points |-> points]

\* State.frames as the script sets it up: two frames holding the rest pose.
InitialFrames ==
    <<Frame(DefaultDuration, getInitialPose), Frame(DefaultDuration, getInitialPose)>>

\* frames[i] of the source, i counted from 0
FrameAt(fs, i) == fs[i + 1]

-----------------------------------------------------------------------------
(* Easing library *)

\* The keys of the EasingFunctions object.
EasingNames ==
    {"linear", "easeInOutCubic", "easeInQuad", "easeOutQuad",
     "easeOutBack", "easeOutElastic", "easeOutBounce"}

defaultEasing == "easeInOutCubic"

easeInOutCubic(t) ==
    IF RLt(t, <<1, 2>>)
    THEN RMul(R(4), RMul(t, RMul(t, t)))
    ELSE LET a == RSub(t, R(1))
             b == RSub(RMul(R(2), t), R(2))
         IN  RAdd(RMul(a, RMul(b, b)), R(1))

easeOutBounce(t) ==
    LET n1 == <<121, 16>>       \* 7.5625
        d1 == <<11, 4>>         \* 2.75
        sq(u, c) == RAdd(RMul(n1, RMul(u, u)), c)
    IN  IF RLt(t, <<4, 11>>) THEN RMul(n1, RMul(t, t))
        ELSE IF RLt(t, <<8, 11>>) THEN sq(RSub(t, <<6, 11>>), <<3, 4>>)
        ELSE IF RLt(t, <<10, 11>>) THEN sq(RSub(t, <<9, 11>>), <<15, 16>>)
        ELSE sq(RSub(t, <<21, 22>>), <<63, 64>>)

easeOutBack(t) ==
    LET c1 == <<85079, 50000>>  \* 1.70158
        c3 == RAdd(c1, R(1))
        u  == RSub(t, R(1))
    IN  RAdd(R(1), RAdd(RMul(c3, RMul(u, RMul(u, u))), RMul(c1, RMul(u, u))))

\* EasingFunctions[name](t).  easeOutElastic is 2^(-10t) * sin(...) + 1 away
\* from the end points, which is no rational: only its end points are given.
ApplyEasing(name, t) ==
    CASE name = "linear"         -> t
      [] name = "easeInOutCubic" -> easeInOutCubic(t)
      [] name = "easeInQuad"     -> RMul(t, t)
      [] name = "easeOutQuad"    -> RMul(t, RSub(R(2), t))
      [] name = "easeOutBack"    -> easeOutBack(t)
      [] name = "easeOutBounce"  -> easeOutBounce(t)
      [] name = "easeOutElastic" /\ t = R(0) -> R(0)
      [] name = "easeOutElastic" /\ t = R(1) -> R(1)

-----------------------------------------------------------------------------
(* Independent-channel time sampler: getPoseAtTime *)

\* frameStartTimes[i]: the sum of the durations of the frames before i
RECURSIVE frameStartTime(_, _)
frameStartTime(fs, i) ==
    IF i = 0 THEN 0 ELSE frameStartTime(fs, i - 1) + FrameAt(fs, i - 1).duration

\* the last i with globalTime >= frameStartTimes[i], 0 when there is none
tentativeIdxAt(fs, globalTime) ==
    LET S == {i \in 0 .. (Len(fs) - 1) : globalTime >= frameStartTime(fs, i)}
    IN  IF S = {} THEN 0 ELSE Max(S)

IsKeyed(fs, i, pIdx) == ~FrameAt(fs, i).points[pIdx].isIgnored

\* a scan back that stops at tentativeIdx without testing isIgnored
prevKeyIdxUnskipped(fs, pIdx, tentativeIdx) == tentativeIdx

\* scan back from tentativeIdx: nearest frame where the joint is not ignored;
\* Null when every one of them ignores it
prevKeyIdx(fs, pIdx, tentativeIdx) ==
    LET S == {i \in 0 .. tentativeIdx : IsKeyed(fs, i, pIdx)}
    IN  IF S = {} THEN Null ELSE Max(S)

\* a scan forward that stops at tentativeIdx + 1 without testing isIgnored
nextKeyIdxUnskipped(fs, pIdx, tentativeIdx) ==
    IF tentativeIdx + 1 <= Len(fs) - 1 THEN tentativeIdx + 1 ELSE Null

\* scan forward from tentativeIdx + 1: nearest frame where the joint is not ignored
nextKeyIdx(fs, pIdx, tentativeIdx) ==
    LET S == {i \in (tentativeIdx + 1) .. (Len(fs) - 1) : IsKeyed(fs, i, pIdx)}
    IN  IF S = {} THEN Null ELSE Min(S)

\* const type = pointEnd.easing || 'easeInOutCubic'
easingType(point) == IF point.easing # NoEasing THEN point.easing ELSE defaultEasing

\* const fn = EasingFunctions[type] || EasingFunctions[linear]: the second
\* operand reads the undeclared identifier linear, so evaluating it raises a
\* ReferenceError; it is evaluated exactly when the table has no key type.
\* TRUE when fn is EasingFunctions[type], FALSE when the line raises.
samplerEasingFound(type) == type \in EasingNames

\* localT of getPoseAtTime (duration > 0.0001 s is duration * 1000 > 1 tenths)
localTAt(globalTime, prevTime, nextTime) ==
    LET duration == nextTime - prevTime
        raw == IF duration * 1000 > 1 THEN Rat(globalTime - prevTime, duration) ELSE R(0)
    IN  RMax(R(0), RMin(R(1), raw))

lerp(a, b, easedT) == RAdd(R(a), RMul(R(b - a), easedT))

\* a point of the returned pose; a blended point has neither easing nor isIgnored
PosePoint(x, y, easing, isIgnored) ==
    [x |-> x, y |-> y, easing |-> easing, isIgnored |-> isIgnored]

\* resultPoints[pIdx] = { ...prevFrame.points[pIdx] }
holdPoint(p) == PosePoint(R(p.x), R(p.y), p.easing, p.isIgnored)

\* The pass of the loop body for joint pIdx raises: the joint has a next
\* keyframe and the easing named on that keyframe's point is no key of
\* EasingFunctions.
pointRaises(fs, pIdx, tentativeIdx) ==
    LET nextIdx == nextKeyIdx(fs, pIdx, tentativeIdx)
    IN  /\ nextIdx # Null
        /\ ~samplerEasingFound(easingType(FrameAt(fs, nextIdx).points[pIdx]))

\* The point the pass for joint pIdx writes to resultPoints[pIdx] (when it
\* does not raise).  Without a keyed frame at or before tentativeIdx the
\* pass falls back to frame 0 at time 0.
resolvePoint(fs, pIdx, globalTime, tentativeIdx) ==
    LET pk == prevKeyIdx(fs, pIdx, tentativeIdx)
        prevIdx == IF pk = Null THEN 0 ELSE pk
        prevTime == frameStartTime(fs, prevIdx)
        nextIdx == nextKeyIdx(fs, pIdx, tentativeIdx)
        pointStart == FrameAt(fs, prevIdx).points[pIdx]
    IN  IF nextIdx = Null
        THEN holdPoint(pointStart)
        ELSE LET pointEnd == FrameAt(fs, nextIdx).points[pIdx]
                 localT == localTAt(globalTime, prevTime, frameStartTime(fs, nextIdx))
                 easedT == ApplyEasing(easingType(pointEnd), localT)
             IN  PosePoint(lerp(pointStart.x, pointEnd.x, easedT),
                           lerp(pointStart.y, pointEnd.y, easedT),
                           NoEasing, FALSE)

\* The object the pass for joint pIdx stores in resultPoints[pIdx]: a point
\* object of State.frames, or an object made by the call.
StoredObject(i, pIdx) == [kind |-> "stored", frame |-> i, point |-> pIdx]
NewObject == [kind |-> "new", frame |-> Null, point |-> Null]

\* a hold that stores prevFrame.points[pIdx] itself
resultObjectShared(fs, pIdx, tentativeIdx) ==
    IF nextKeyIdx(fs, pIdx, tentativeIdx) = Null
    THEN LET pk == prevKeyIdx(fs, pIdx, tentativeIdx)
         IN  StoredObject(IF pk = Null THEN 0 ELSE pk, pIdx)
    ELSE NewObject

\* hold: { ...prevFrame.points[pIdx] }, a copy; blend: an object literal
resultObject(fs, pIdx, tentativeIdx) ==
    IF nextKeyIdx(fs, pIdx, tentativeIdx) = Null THEN NewObject ELSE NewObject

\* Outcome of a call: the pose returned, or the error raised (nothing is
\* returned when the pass of any joint raises).
Returned(points) == [status |-> "returned", points |-> points]
Raised == [status |-> "ReferenceError", points |-> <<>>]
NotCalled == [status |-> "none", points |-> <<>>]

\* State.ikDragData = null
NoIkDragData == [effectorIdx |-> Null]

\* exportOutput.value before any export
NotExported == [status |-> "none"]

getPoseAtTime(fs, globalTime) ==
    LET tentativeIdx == tentativeIdxAt(fs, globalTime)
    IN  IF \E pIdx \in PointIds : pointRaises(fs, pIdx, tentativeIdx)
        THEN Raised
        ELSE Returned([pIdx \in PointIds |->
                          resolvePoint(fs, pIdx, globalTime, tentativeIdx)])

\* getT of interpolatePoints: the eased time of joint idx, from the easing of
\* its point in pointsB, falling back to defaultEasing for an unknown name
getT(pointsB, idx, linearT) ==
    LET type == IF pointsB[idx].easing # NoEasing THEN pointsB[idx].easing ELSE defaultEasing
        fn == IF type \in EasingNames THEN type ELSE defaultEasing
    IN  ApplyEasing(fn, linearT)

-----------------------------------------------------------------------------
(* Skeleton topology *)

\* a map in which the spine (2) has no parent either
parentMapOfTwoRoots ==
    [i \in PointIds |->
        CASE i \in {0, 3, 5} -> 1  [] i = 1 -> 2  [] i \in {2, 7} -> Null
          [] i = 4 -> 3  [] i = 6 -> 5  [] i \in {8, 10} -> 7
          [] i = 9 -> 8  [] i = 11 -> 10]

\* PARENT_MAP: child index -> parent index (Null for the root, 7)
PARENT_MAP ==
    [i \in PointIds |->
        CASE i = 0 -> 1  [] i = 1 -> 2  [] i = 2 -> 7
          [] i = 3 -> 1  [] i = 4 -> 3
          [] i = 5 -> 1  [] i = 6 -> 5
          [] i = 7 -> Null
          [] i = 8 -> 7  [] i = 9 -> 8
          [] i = 10 -> 7 [] i = 11 -> 10]

\* The joints moveChildren(parentId, ...) translates: the children of
\* parentId and, by its recursive call, their descendants.
RECURSIVE movedBy(_)
movedBy(parentId) ==
    LET kids == {i \in PointIds : PARENT_MAP[i] = parentId}
    IN  kids \cup UNION {movedBy(k) : k \in kids}

-----------------------------------------------------------------------------
(* What a handler leaves behind for the observer *)

Op(name, outcome) == [op |-> name, outcome |-> outcome]

\* draw() while playing renders getCurrentInterpolatedPose(), that is
\* getPoseAtTime(State.playCurrentGlobalTime); in edit mode it renders the
\* stored frames and calls no sampler.
drawRaises(fs, playing, t) ==
    playing /\ getPoseAtTime(fs, t).status = Raised.status

drawSamples(fs, playing, t) ==
    IF playing
    THEN sampleTime' = t /\ pose' = getPoseAtTime(fs, t)
    ELSE UNCHANGED sampleVars

\* how a handler ends whose last state-free steps are draw() calls
drawOutcome(fs, playing, t) == IF drawRaises(fs, playing, t) THEN "threw" ELSE "ok"

\* drawStickman reads points[startIndex].x and points[endIndex].x for every
\* pair of CONNECTIONS, which between them name all of 0..11: a points
\* array without one of these indices raises a TypeError.  renderTimeline
\* draws a thumbnail of every frame.
renderRaises(fs) == \E i \in 1 .. Len(fs) : ~(PointIds \subseteq DOMAIN fs[i].points)

\* how a handler ends whose last steps are deselectPoint(), renderTimeline()
\* and draw()
renderOutcome(fs, playing, t) ==
    IF renderRaises(fs) \/ drawRaises(fs, playing, t) THEN "threw" ELSE "ok"

-----------------------------------------------------------------------------
(* Deep copies: JSON.parse(JSON.stringify(value)) *)

\* Number(v) of an attribute the point does not have: NaN
NaN == -1000000

\* JSON.stringify writes null for NaN, and JSON.parse reads it as null
JsonNull == -2000000

jsonNumber(v) == IF v = NaN THEN JsonNull ELSE v

\* the copy of a points array: numbers, strings and booleans come back as
\* they were, NaN as null
jsonClone(points) ==
    [p \in DOMAIN points |->
        [points[p] EXCEPT !.x = jsonNumber(@), !.y = jsonNumber(@)]]

jsonCloneFrames(fs) ==
    [i \in 1 .. Len(fs) |-> Frame(fs[i].duration, jsonClone(fs[i].points))]

-----------------------------------------------------------------------------
(* Array objects.  A points array is held at a place: in frame i of
   State.frames, or in frame i of snapshot k of the undo or of the redo
   stack.  Two places can hold one and the same array, and a write through
   one of them then shows at the other.  shared is the set of the sets of two
   or more places that hold one array; a place in none of them holds an array
   of its own.  A handler moves the arrays between places and makes new
   ones. *)

framePlace(i) == <<"frames", 0, i>>
stackPlace(k, i) == <<"stack", k, i>>
redoPlace(k, i) == <<"redoStack", k, i>>
Nowhere == <<"nowhere", 0, 0>>

\* shared after every array went from its place p to the place to[p], or out
\* of reach (Nowhere); to is a function on the places that share
rehoused(sh, to) ==
    LET landed == {{to[p] : p \in c} \ {Nowhere} : c \in sh}
    IN  {c \in landed : Cardinality(c) >= 2}

placesOf(sh) == UNION sh

\* the places that hold the array held at place p
holders(sh, p) == {p} \cup UNION {c \in sh : p \in c}

\* shared after place q was given the array held at place p
joined(sh, p, q) == {c \in sh : p \notin c} \cup {holders(sh, p) \cup {q}}

\* the frames fs of the holder so named (snapshot k, 0 for State.frames)
\* after points was written into the array held at the places at
writtenFrames(fs, holder, k, at, points) ==
    [i \in 1 .. Len(fs) |->
        IF <<holder, k, i>> \in at THEN [fs[i] EXCEPT !.points = points] ELSE fs[i]]

\* the snapshots of a stack after the same write
writtenSnapshots(st, holder, at, points) ==
    IF \A p \in at : p[1] # holder
    THEN st
    ELSE [k \in 1 .. Len(st) |->
            [st[k] EXCEPT !.frames = writtenFrames(@, holder, k, at, points)]]

-----------------------------------------------------------------------------
(* History (undo / redo) *)

maxSize == 50

\* what the history works on: State.frames, the two indices of State that a
\* snapshot holds, and the two stacks
held ==
    [frames |-> frames, currentFrameIndex |-> currentFrameIndex,
     selectedPointIndex |-> selectedPointIndex, stack |-> stack, redoStack |-> redoStack]

\* _createSnapshot: deep copies of the frames, the indices (the background
\* descriptor is not part of this model)
snapshotOf(h) ==
    [frames |-> jsonCloneFrames(h.frames), currentFrameIndex |-> h.currentFrameIndex,
     selectedPointIndex |-> h.selectedPointIndex]

createSnapshot == snapshotOf(held)

\* a push that never drops a snapshot
savedStackUnbounded == Append(stack, createSnapshot)

\* saveState: push, drop the oldest beyond maxSize; the redo stack is cleared
savedStack ==
    LET pushed == Append(stack, createSnapshot)
    IN  IF Len(pushed) > maxSize THEN Tail(pushed) ELSE pushed

\* shared after saveState(): the snapshot pushed holds arrays of its own
\* (JSON.parse(JSON.stringify(State.frames))), shift() lets the oldest
\* snapshot go, and the redo stack is emptied
savedShared(sh) ==
    rehoused(sh, [p \in placesOf(sh) |->
                  CASE p[1] = "redoStack" -> Nowhere
                    [] p[1] = "stack" /\ Len(stack) + 1 > maxSize ->
                           IF p[2] = 1 THEN Nowhere ELSE stackPlace(p[2] - 1, p[3])
                    [] OTHER -> p])

saveState == stack' = savedStack /\ redoStack' = <<>>

\* restore(snapshot): the assignments to State
restore(h, snapshot) ==
    [h EXCEPT !.frames = snapshot.frames,
              !.currentFrameIndex = snapshot.currentFrameIndex,
              !.selectedPointIndex = snapshot.selectedPointIndex]

\* History.undo() past its guard: the snapshot of the state found goes on the
\* redo stack, the snapshot popped off the undo stack is restored
undoOf(h) ==
    restore([h EXCEPT !.redoStack = Append(@, snapshotOf(h)),
                      !.stack = SubSeq(@, 1, Len(@) - 1)],
            h.stack[Len(h.stack)])

\* History.redo() past its guard: the snapshot of the state found goes on the
\* undo stack (no size test), the snapshot popped off the redo stack is restored
redoOf(h) ==
    restore([h EXCEPT !.stack = Append(@, snapshotOf(h)),
                      !.redoStack = SubSeq(@, 1, Len(@) - 1)],
            h.redoStack[Len(h.redoStack)])

\* shared after undo(): the snapshot pushed on the redo stack holds arrays
\* of its own, and State.frames = snapshot.frames takes the arrays of the
\* snapshot popped
undoneShared(sh) ==
    rehoused(sh, [p \in placesOf(sh) |->
                  CASE p[1] = "frames" -> Nowhere
                    [] p[1] = "stack" /\ p[2] = Len(stack) -> framePlace(p[3])
                    [] OTHER -> p])

redoneShared(sh) ==
    rehoused(sh, [p \in placesOf(sh) |->
                  CASE p[1] = "frames" -> Nowhere
                    [] p[1] = "redoStack" /\ p[2] = Len(redoStack) -> framePlace(p[3])
                    [] OTHER -> p])

\* the history leaves h behind; restore ends with renderTimeline() and draw()
leaves(h) ==
    /\ frames' = h.frames
    /\ currentFrameIndex' = h.currentFrameIndex
    /\ selectedPointIndex' = h.selectedPointIndex
    /\ stack' = h.stack
    /\ redoStack' = h.redoStack
    /\ drawSamples(h.frames, isPlaying, playCurrentGlobalTime)

undo ==
    /\ Len(stack) # 0
    /\ leaves(undoOf(held))
    /\ shared' = undoneShared(shared)
    /\ lastOp' = Op("undo", renderOutcome(frames', isPlaying, playCurrentGlobalTime))
    /\ UNCHANGED <<playVars, exportOutput, standaloneVars, ikVars, draggedPointIndex>>

redo ==
    /\ Len(redoStack) # 0
    /\ leaves(redoOf(held))
    /\ shared' = redoneShared(shared)
    /\ lastOp' = Op("redo", renderOutcome(frames', isPlaying, playCurrentGlobalTime))
    /\ UNCHANGED <<playVars, exportOutput, standaloneVars, ikVars, draggedPointIndex>>

-----------------------------------------------------------------------------
(* Timeline editing *)

\* array.splice(at, 0, item) and array.splice(at, 1), at counted from 0
spliceIn(fs, at, item) == SubSeq(fs, 1, at) \o <<item>> \o SubSeq(fs, at + 1, Len(fs))
spliceOut(fs, at) == SubSeq(fs, 1, at) \o SubSeq(fs, at + 2, Len(fs))

\* newPoints of addNewFrame: JSON.parse(JSON.stringify(currentPoints)), an
\* object made by the call and no point array of State.frames
clonedPointsObject(index) == NewObject

\* shared after splice(index + 1, 0, newFrame): the frames behind the current
\* one move up by one
splicedIn(sh, index) ==
    rehoused(sh, [p \in placesOf(sh) |->
                  IF p[1] = "frames" /\ p[3] > index + 1 THEN framePlace(p[3] + 1) ELSE p])

\* a new frame whose points are currentPoints itself
currentPointsKept(sh, index) ==
    joined(splicedIn(sh, index), framePlace(index + 1), framePlace(index + 2))

\* points: newPoints, where newPoints = JSON.parse(JSON.stringify(currentPoints))
\* is an array of its own
newPointsSpliced(sh, index) == splicedIn(sh, index)

\* shared after splice(index, 1)
splicedOut(sh, index) ==
    rehoused(sh, [p \in placesOf(sh) |->
                  CASE p[1] = "frames" /\ p[3] = index + 1 -> Nowhere
                    [] p[1] = "frames" /\ p[3] > index + 1 -> framePlace(p[3] - 1)
                    [] OTHER -> p])

\* selectFrame(index): a click on a frame card, ArrowLeft / ArrowRight
selectFrame(index) ==
    /\ index \in 0 .. (Len(frames) - 1)
    /\ IF isPlaying
       THEN /\ UNCHANGED <<editVars, sampleVars>>
            /\ lastOp' = Op("selectFrame", "rejected")
       ELSE /\ currentFrameIndex' = index
            /\ UNCHANGED <<frames, selectedPointIndex, stack, redoStack,
                           draggedPointIndex, shared, sampleVars>>
            /\ lastOp' = Op("selectFrame", renderOutcome(frames, FALSE, 0))
    /\ UNCHANGED <<playVars, exportOutput, standaloneVars, ikVars>>

\* addNewFrame: the add button, the '+' placeholder, the N key
addNewFrame ==
    /\ Len(frames) < MaxFrames
    /\ Len(stack) < MaxStack
    /\ saveState
    /\ LET newFrame == Frame(DefaultDuration,
                             jsonClone(FrameAt(frames, currentFrameIndex).points))
       IN  frames' = spliceIn(frames, currentFrameIndex + 1, newFrame)
    /\ shared' = newPointsSpliced(savedShared(shared), currentFrameIndex)
    /\ currentFrameIndex' = currentFrameIndex + 1
    /\ selectedPointIndex' = Null
    /\ drawSamples(frames', isPlaying, playCurrentGlobalTime)
    /\ lastOp' = Op("addNewFrame", renderOutcome(frames', isPlaying, playCurrentGlobalTime))
    /\ UNCHANGED <<playVars, exportOutput, standaloneVars, ikVars, draggedPointIndex>>

\* a guard that lets the last frame go: length < 1
deleteRejectedWhenEmpty(fs) == Len(fs) < 1

\* if (State.frames.length <= 1) return;
deleteRejected(fs) == Len(fs) <= 1

\* an index left where it was
unclampedIndex(current, length) == current

\* if (State.currentFrameIndex >= State.frames.length)
\*     State.currentFrameIndex = State.frames.length - 1;
clampedIndex(current, length) == IF current >= length THEN length - 1 ELSE current

\* deleteFrame(index): the toolbar button and the Delete / Backspace key pass
\* currentFrameIndex, a frame's own delete button passes that frame's index
deleteFrame(index) ==
    /\ index \in 0 .. (Len(frames) - 1)
    /\ IF deleteRejected(frames)
       THEN /\ UNCHANGED <<editVars, sampleVars>>
            /\ lastOp' = Op("deleteFrame", "rejected")
       ELSE /\ Len(stack) < MaxStack
            /\ saveState
            /\ frames' = spliceOut(frames, index)
            /\ shared' = splicedOut(savedShared(shared), index)
            /\ currentFrameIndex' = clampedIndex(currentFrameIndex, Len(frames'))
            /\ selectedPointIndex' = Null
            /\ UNCHANGED draggedPointIndex
            /\ drawSamples(frames', isPlaying, playCurrentGlobalTime)
            /\ lastOp' = Op("deleteFrame",
                            renderOutcome(frames', isPlaying, playCurrentGlobalTime))
    /\ UNCHANGED <<playVars, exportOutput, standaloneVars, ikVars>>

-----------------------------------------------------------------------------
(* Pointer and property-panel handlers *)

selectionRadius == 15

\* where the pointer can be: on a joint of the current frame, or on one of
\* two fixed canvas positions
PointerTargets == {<<400, 130>>, <<420, 200>>}

PointerPositions ==
    PointerTargets \cup
    {<<FrameAt(frames, currentFrameIndex).points[j].x,
       FrameAt(frames, currentFrameIndex).points[j].y>> : j \in Joints}

\* the first point of the frame within selectionRadius of pos, Null when none
\* (dist <= selectionRadius, compared as squares)
hitPoint(points, pos) ==
    LET near(i) == (pos[1] - points[i].x) * (pos[1] - points[i].x)
                     + (pos[2] - points[i].y) * (pos[2] - points[i].y)
                   <= selectionRadius * selectionRadius
        S == {i \in DOMAIN points : near(i)}
    IN  IF S = {} THEN Null ELSE Min(S)

\* IK_CHAINS: effector -> <<middle joint, root joint>>
IK_CHAINS == [i \in {4, 6, 9, 11} |->
                 CASE i = 4 -> <<3, 1>> [] i = 6 -> <<5, 1>>
                   [] i = 9 -> <<8, 7>> [] i = 11 -> <<10, 7>>]

\* Math.sqrt and Math.hypot where the result is a whole number (the pointer
\* positions of the explored runs keep every length that is measured whole)
isqrt(n) == CHOOSE k \in 0 .. n : k * k = n
hypot(dx, dy) == isqrt(dx * dx + dy * dy)

\* bendDir: the sign test on the cross product of (joint - root) and
\* (effector - root)
bendDirOf(root, joint, effector) ==
    IF (joint.x - root.x) * (effector.y - root.y)
         - (joint.y - root.y) * (effector.x - root.x) > 0 THEN 1 ELSE -1

\* State.ikDragData as handleMouseDown sets it for effector i
ikDragDataOf(points, i) ==
    LET jointIdx == IK_CHAINS[i][1]
        rootIdx == IK_CHAINS[i][2]
        root == points[rootIdx]
        joint == points[jointIdx]
        effector == points[i]
    IN  [rootIdx |-> rootIdx, jointIdx |-> jointIdx, effectorIdx |-> i,
         d1 |-> hypot(joint.x - root.x, joint.y - root.y),
         d2 |-> hypot(effector.x - joint.x, effector.y - joint.y),
         bendDir |-> bendDirOf(root, joint, effector)]

\* draw() in edit mode: drawStickman on the points of the current frame
\* (onion skinning is off)
drawEditRaises(fs, index) == ~(PointIds \subseteq DOMAIN FrameAt(fs, index).points)

\* handleMouseDown (no background being edited).  selectPoint(i) and
\* deselectPoint() end with draw(); what follows selectPoint(i), the
\* assignment of State.ikDragData, is not reached when that draw() raises.
handleMouseDown(pos) ==
    /\ IF isPlaying
       THEN /\ UNCHANGED <<editVars, ikDragData>>
            /\ lastOp' = Op("handleMouseDown", "rejected")
       ELSE /\ Len(stack) < MaxStack
            /\ saveState
            /\ shared' = savedShared(shared)
            /\ LET points == FrameAt(frames, currentFrameIndex).points
                   found == hitPoint(points, pos)
                   threw == drawEditRaises(frames, currentFrameIndex)
               IN  /\ draggedPointIndex' = IF found = Null THEN draggedPointIndex ELSE found
                   /\ selectedPointIndex' = found
                   /\ ikDragData' = IF found # Null /\ ~threw /\ isIKEnabled
                                       /\ found \in DOMAIN IK_CHAINS
                                    THEN ikDragDataOf(points, found)
                                    ELSE ikDragData
                   /\ lastOp' = Op("handleMouseDown", IF threw THEN "threw" ELSE "ok")
            /\ UNCHANGED <<frames, currentFrameIndex>>
    /\ UNCHANGED <<playVars, exportOutput, standaloneVars, sampleVars, isIKEnabled>>

\* the points array after dragging joint dragIdx to pos by forward kinematics:
\* point.x = pos.x, point.y = pos.y, and everything moveChildren reaches is
\* translated by (dx, dy).  moveChildren looks at the indices below
\* points.length; in an array that holds a prefix of the joints these are
\* the descendants it holds.
draggedPoints(points, dragIdx, pos) ==
    LET dx == pos[1] - points[dragIdx].x
        dy == pos[2] - points[dragIdx].y
        moved == movedBy(dragIdx) \cap DOMAIN points
    IN  [i \in DOMAIN points |->
            IF i = dragIdx THEN [points[i] EXCEPT !.x = pos[1], !.y = pos[2]]
            ELSE IF i \in moved THEN [points[i] EXCEPT !.x = @ + dx, !.y = @ + dy]
            ELSE points[i]]

RDiv(p, q) == Rat(p[1] * q[2], p[2] * q[1])
RSqrt(r) == <<isqrt(r[1]), isqrt(r[2])>>

\* a coordinate that is a whole number, as the frames of the model hold them
whole(r) == CHOOSE v \in {r[1]} : r[2] = 1

\* solveTwoJointIK(points, ikData, targetX, targetY): the points array it
\* leaves.  Angles are carried as their cosine and sine: angleAlpha is in
\* [0, pi], so its sine is the non-negative root; atan2(0, 0) is 0.
solveTwoJointIK(points, ikData, targetX, targetY) ==
    LET root == points[ikData.rootIdx]
        d1 == ikData.d1
        d2 == ikData.d2
        distTarget == hypot(targetX - root.x, targetY - root.y)
        maxDist == Rat((d1 + d2) * 9999, 10000)
        minDist == RAdd(R(Abs(d1 - d2)), Rat(1, 1000))
        validDist == IF RLt(maxDist, R(distTarget)) THEN maxDist
                     ELSE IF RLt(R(distTarget), minDist) THEN minDist
                     ELSE R(distTarget)
        cosAlpha == RDiv(RSub(RAdd(R(d1 * d1), RMul(validDist, validDist)), R(d2 * d2)),
                         RMul(R(2 * d1), validDist))
        cosA == RMax(R(-1), RMin(R(1), cosAlpha))
        sinA == RSqrt(RSub(R(1), RMul(cosA, cosA)))
        cosT == IF distTarget = 0 THEN R(1) ELSE Rat(targetX - root.x, distTarget)
        sinT == IF distTarget = 0 THEN R(0) ELSE Rat(targetY - root.y, distTarget)
        bend == R(ikData.bendDir)
        cosRoot == RSub(RMul(cosT, cosA), RMul(bend, RMul(sinT, sinA)))
        sinRoot == RAdd(RMul(sinT, cosA), RMul(bend, RMul(cosT, sinA)))
        newJointX == RAdd(R(root.x), RMul(cosRoot, R(d1)))
        newJointY == RAdd(R(root.y), RMul(sinRoot, R(d1)))
        toX == RSub(R(targetX), newJointX)
        toY == RSub(R(targetY), newJointY)
        toLen == RSqrt(RAdd(RMul(toX, toX), RMul(toY, toY)))
        cosJ == IF toLen = R(0) THEN R(1) ELSE RDiv(toX, toLen)
        sinJ == IF toLen = R(0) THEN R(0) ELSE RDiv(toY, toLen)
        newEffectorX == RAdd(newJointX, RMul(cosJ, R(d2)))
        newEffectorY == RAdd(newJointY, RMul(sinJ, R(d2)))
    IN  [points EXCEPT ![ikData.jointIdx].x = whole(newJointX),
                       ![ikData.jointIdx].y = whole(newJointY),
                       ![ikData.effectorIdx].x = whole(newEffectorX),
                       ![ikData.effectorIdx].y = whole(newEffectorY)]

\* if (State.isIKEnabled && State.ikDragData && State.ikDragData.effectorIdx === dragIdx)
ikApplies == isIKEnabled /\ ikDragData.effectorIdx = draggedPointIndex

\* handleMouseMove while a joint is being dragged
handleMouseMove(pos) ==
    /\ draggedPointIndex # Null
    /\ IF isPlaying
       THEN /\ UNCHANGED editVars
            /\ lastOp' = Op("handleMouseMove", "rejected")
       ELSE /\ LET points == FrameAt(frames, currentFrameIndex).points
                   written == IF ikApplies
                              THEN solveTwoJointIK(points, ikDragData, pos[1], pos[2])
                              ELSE draggedPoints(points, draggedPointIndex, pos)
                   at == holders(shared, framePlace(currentFrameIndex + 1))
               IN  /\ frames' = writtenFrames(frames, "frames", 0, at, written)
                   /\ stack' = writtenSnapshots(stack, "stack", at,
                                                 FrameAt(frames', currentFrameIndex).points)
                   /\ redoStack' = writtenSnapshots(redoStack, "redoStack", at,
                                                     FrameAt(frames', currentFrameIndex).points)
            /\ UNCHANGED <<currentFrameIndex, selectedPointIndex, draggedPointIndex, shared>>
            /\ lastOp' = Op("handleMouseMove",
                            IF drawEditRaises(frames', currentFrameIndex)
                            THEN "threw" ELSE "ok")
    /\ UNCHANGED <<playVars, exportOutput, standaloneVars, ikVars, sampleVars>>

\* handleMouseUp (mouseup, mouseleave, touchend, touchcancel)
handleMouseUp ==
    /\ draggedPointIndex # Null
    /\ draggedPointIndex' = Null
    /\ ikDragData' = NoIkDragData
    /\ UNCHANGED <<frames, currentFrameIndex, selectedPointIndex, stack, redoStack, shared>>
    /\ lastOp' = Op("handleMouseUp", IF renderRaises(frames) THEN "threw" ELSE "ok")
    /\ UNCHANGED <<playVars, exportOutput, standaloneVars, isIKEnabled, sampleVars>>

\* chkIK 'change'
ikToggle(checked) ==
    /\ checked # isIKEnabled
    /\ isIKEnabled' = checked
    /\ lastOp' = Op("ikToggle", "ok")
    /\ UNCHANGED <<editVars, playVars, exportOutput, standaloneVars, ikDragData, sampleVars>>

\* History.saveState() followed by a write to the selected point of the
\* current frame, which leaves written in that frame's points array
pointWritten(written) ==
    LET at == holders(savedShared(shared), framePlace(currentFrameIndex + 1))
    IN  /\ frames' = writtenFrames(frames, "frames", 0, at, written)
        /\ stack' = writtenSnapshots(savedStack, "stack", at,
                                      FrameAt(frames', currentFrameIndex).points)
        /\ redoStack' = <<>>
        /\ shared' = savedShared(shared)

\* the easing names offered to the selected point in the explored runs
SelectableEasings == {"linear", "easeInQuad"}

\* selectEasing 'change'
easingChange(value) ==
    /\ selectedPointIndex # Null
    /\ pointWritten([FrameAt(frames, currentFrameIndex).points EXCEPT
                         ![selectedPointIndex].easing = value])
    /\ UNCHANGED <<currentFrameIndex, selectedPointIndex, draggedPointIndex>>
    /\ lastOp' = Op("easingChange", "ok")
    /\ UNCHANGED <<playVars, exportOutput, standaloneVars, ikVars, sampleVars>>

\* chkPassthrough 'change' (checked = the new box state); the P key is the
\* same write with checked = !point.isIgnored, outside playback only
passthroughChange(checked) ==
    /\ selectedPointIndex # Null
    /\ pointWritten([FrameAt(frames, currentFrameIndex).points EXCEPT
                         ![selectedPointIndex].isIgnored = checked])
    /\ UNCHANGED <<currentFrameIndex, selectedPointIndex, draggedPointIndex>>
    /\ drawSamples(frames', isPlaying, playCurrentGlobalTime)
    /\ lastOp' = Op("passthroughChange",
                    drawOutcome(frames', isPlaying, playCurrentGlobalTime))
    /\ UNCHANGED <<playVars, exportOutput, standaloneVars, ikVars>>

-----------------------------------------------------------------------------
(* Project files and loadProject *)

\* a keyframe as a project file spells it; duration 0 stands for a duration
\* that is missing, zero or not a number
Keyframe(duration, points) == [duration |-> duration, points |-> points]

\* the rest pose with joint j moved by (dx, dy) and given an easing name
Posed(points, j, dx, dy, easing) ==
    [points EXCEPT ![j] = Point(@.x + dx, @.y + dy, easing, @.isIgnored)]

FileEmpty == <<>>
FileSingle == <<Keyframe(0, getInitialPose)>>
FileNod ==
    <<Keyframe(10, getInitialPose),
      Keyframe(5, Posed(getInitialPose, 0, 0, -50, "linear")),
      Keyframe(5, Posed(getInitialPose, 0, 20, -20, NoEasing))>>
\* a hand-edited file: an easing name the editor does not know, and an
\* isIgnored attribute, which the loader does not read
FileEdited ==
    <<Keyframe(5, getInitialPose),
      Keyframe(10, Posed([getInitialPose EXCEPT ![0].isIgnored = TRUE],
                         1, 10, 0, "easeOutSine"))>>

\* a hand-edited file with a negative duration
FileNegative ==
    <<Keyframe(-5, getInitialPose),
      Keyframe(5, Posed(getInitialPose, 0, 0, -50, NoEasing))>>

\* a point without an x attribute
PointWithoutX(y) == [y |-> y, easing |-> NoEasing, isIgnored |-> FALSE]

\* hand-edited files: a point that lacks x; a keyframe of 11 points; a
\* keyframe of 13 points; a keyframe without a points array
FileNoX ==
    <<Keyframe(5, [getInitialPose EXCEPT ![0] = PointWithoutX(180)])>>
FileShort ==
    <<Keyframe(5, [p \in 0 .. (numPoints - 2) |-> getInitialPose[p]])>>
FileExtra ==
    <<Keyframe(5, [p \in 0 .. numPoints |->
                      IF p \in PointIds THEN getInitialPose[p]
                      ELSE Point(400, 100, NoEasing, FALSE)])>>
FileNoPoints == <<[duration |-> 5]>>

ProjectFiles ==
    {FileEmpty, FileSingle, FileNod, FileEdited, FileNegative,
     FileNoX, FileShort, FileExtra, FileNoPoints}

\* Number(p.x), Number(p.y) for numbers and for a missing attribute
jsNumber(p, attribute) == IF attribute \in DOMAIN p THEN p[attribute] ELSE NaN

\* newFrames of loadProject: Number(f.duration) || 0.5, and of every point
\* id, x, y and a truthy easing only
parsedFrames(keyframes) ==
    [i \in 1 .. Len(keyframes) |->
        Frame(IF keyframes[i].duration # 0 THEN keyframes[i].duration ELSE DefaultDuration,
              [p \in DOMAIN keyframes[i].points |->
                  Point(jsNumber(keyframes[i].points[p], "x"),
                        jsNumber(keyframes[i].points[p], "y"),
                        keyframes[i].points[p].easing, FALSE)])]

\* a loader without the emptiness test
loadNeverRejected(keyframes) == FALSE

\* if (!keyframes || keyframes.length === 0) throw ...
loadRejected(keyframes) == Len(keyframes) = 0

\* f.points.map(...) of a keyframe without a points array raises a
\* TypeError inside keyframes.map, before State.frames is assigned
parseRaises(keyframes) == \E i \in 1 .. Len(keyframes) : "points" \notin DOMAIN keyframes[i]

\* loadProject(keyframes), from the import handler.  Whatever is raised
\* inside the try block ends in the alert of the catch block: the throw of
\* the emptiness test and the TypeError of the parse before State.frames is
\* assigned, an error raised by deselectPoint(), renderTimeline() or
\* selectFrame(0) after it.
loadProject(keyframes) ==
    /\ Len(keyframes) <= MaxFrames
    /\ IF loadRejected(keyframes) \/ parseRaises(keyframes)
       THEN /\ UNCHANGED <<editVars, sampleVars>>
            /\ lastOp' = Op("loadProject", "alert")
       ELSE /\ frames' = parsedFrames(keyframes)
            /\ currentFrameIndex' = 0
            /\ selectedPointIndex' = Null
            /\ shared' = rehoused(shared, [p \in placesOf(shared) |->
                                           IF p[1] = "frames" THEN Nowhere ELSE p])
            /\ UNCHANGED <<stack, redoStack, draggedPointIndex>>
            \* deselectPoint() draws when a point was selected; selectFrame(0)
            \* draws outside playback
            /\ IF renderRaises(frames')
               THEN /\ UNCHANGED sampleVars
                    /\ lastOp' = Op("loadProject", "alert")
               ELSE IF selectedPointIndex # Null
               THEN /\ drawSamples(frames', isPlaying, playCurrentGlobalTime)
                    /\ lastOp' = Op("loadProject",
                                    IF drawRaises(frames', isPlaying, playCurrentGlobalTime)
                                    THEN "alert" ELSE "ok")
               ELSE /\ UNCHANGED sampleVars
                    /\ lastOp' = Op("loadProject", "ok")
    /\ UNCHANGED <<playVars, exportOutput, standaloneVars, ikVars>>

\* the ends of the duration slider of an interpolator: min 0.1, max 3.0
SliderMin == 1
SliderMax == 30

\* range.oninput of the slider after frame index (a frame that is not the
\* last): frame.duration = parseFloat(e.target.value)
durationInput(index, val) ==
    /\ index \in 0 .. (Len(frames) - 2)
    /\ val \in SliderMin .. SliderMax
    /\ frames' = [frames EXCEPT ![index + 1].duration = val]
    /\ UNCHANGED <<currentFrameIndex, selectedPointIndex, stack, redoStack,
                   draggedPointIndex, shared>>
    /\ lastOp' = Op("durationInput", "ok")
    /\ UNCHANGED <<playVars, exportOutput, standaloneVars, ikVars, sampleVars>>

-----------------------------------------------------------------------------
(* Playback *)

PlaybackModes == {"loop", "reverse", "pingpong", "once"}

\* selectPlaybackMode 'change'
playbackModeChange(mode) ==
    /\ mode # playbackMode
    /\ playbackMode' = mode
    /\ lastOp' = Op("playbackModeChange", "ok")
    /\ UNCHANGED <<editVars, exportOutput, standaloneVars, ikVars, sampleVars, isPlaying, playStartTime,
                   playCurrentGlobalTime, now, pending>>

\* time passes between two handlers
advanceClock ==
    /\ now < MaxNow
    /\ now' = now + 1
    /\ lastOp' = Op("clock", "ok")
    /\ UNCHANGED <<editVars, exportOutput, standaloneVars, ikVars, sampleVars, isPlaying, playbackMode, playStartTime,
                   playCurrentGlobalTime, pending>>

\* startPlayback: the play button (shown while not playing) and the space
\* key while not playing
startPlayback ==
    /\ ~isPlaying
    /\ pending < MaxPending
    /\ isPlaying' = TRUE
    /\ playStartTime' = now
    /\ playCurrentGlobalTime' = 0
    /\ pending' = pending + 1           \* requestAnimationFrame(playbackLoop)
    /\ lastOp' = Op("startPlayback", "ok")
    /\ UNCHANGED <<editVars, exportOutput, standaloneVars, ikVars, sampleVars, playbackMode, now>>

\* stopPlayback: the stop button and the space key while playing.  The
\* callback already queued is left in the queue; draw() renders edit mode.
stopPlayback ==
    /\ isPlaying
    /\ isPlaying' = FALSE
    /\ lastOp' = Op("stopPlayback", "ok")
    /\ UNCHANGED <<editVars, exportOutput, standaloneVars, ikVars, sampleVars, playbackMode, playStartTime,
                   playCurrentGlobalTime, now, pending>>

\* totalDuration of playbackLoop: the durations of all frames but the last,
\* replaced by 0.1 s when that sum is not positive
RECURSIVE sumDurations(_, _)
sumDurations(fs, n) == IF n = 0 THEN 0 ELSE sumDurations(fs, n - 1) + fs[n].duration

totalDurationOf(fs) ==
    LET total == sumDurations(fs, Len(fs) - 1)
    IN  IF total <= 0 THEN 1 ELSE total

\* x % m of JavaScript for x >= 0 and m > 0
jsMod(x, m) == x % m

\* the plain remainder, taken at the boundary elapsed = totalDuration too
loopTimeAlwaysMod(elapsed, totalDuration) == jsMod(elapsed, totalDuration)

loopTime(elapsed, totalDuration) ==
    IF elapsed > totalDuration THEN jsMod(elapsed, totalDuration) ELSE elapsed

\* the remainder taken at the boundary elapsed = totalDuration too
reverseTimeAlwaysMod(elapsed, totalDuration) ==
    totalDuration - jsMod(elapsed, totalDuration)

reverseTime(elapsed, totalDuration) ==
    totalDuration - (IF elapsed > totalDuration THEN jsMod(elapsed, totalDuration)
                     ELSE elapsed)

\* a cycle that never turns round: the remainder by totalDuration
pingpongTimeSawtooth(elapsed, totalDuration) == jsMod(elapsed, totalDuration)

pingpongTime(elapsed, totalDuration) ==
    LET cycle == totalDuration * 2
        t == jsMod(elapsed, cycle)
    IN  IF t <= totalDuration THEN t ELSE totalDuration - (t - totalDuration)

\* 'once': the tick that ends playback
onceFinished(elapsed, totalDuration) == elapsed >= totalDuration

\* 'once' without the clamp at totalDuration
onceTimeUnclamped(elapsed, totalDuration) == elapsed

onceTime(elapsed, totalDuration) ==
    IF onceFinished(elapsed, totalDuration) THEN totalDuration ELSE elapsed

\* effectiveTime of one playbackLoop call
effectiveTimeOf(mode, elapsed, totalDuration) ==
    CASE mode = "loop"     -> loopTime(elapsed, totalDuration)
      [] mode = "reverse"  -> reverseTime(elapsed, totalDuration)
      [] mode = "pingpong" -> pingpongTime(elapsed, totalDuration)
      [] mode = "once"     -> onceTime(elapsed, totalDuration)
      [] OTHER             -> 0

\* what one playbackLoop call that got past its guard computes from the
\* state it finds: its locals, and whether its draw() raises
tickOf(fs, mode, elapsed) ==
    LET totalDuration == totalDurationOf(fs)
        effectiveTime == effectiveTimeOf(mode, elapsed, totalDuration)
    IN  [totalDuration |-> totalDuration,
         elapsed |-> elapsed,
         effectiveTime |-> effectiveTime,
         finished |-> mode = "once" /\ onceFinished(elapsed, totalDuration),
         outcome |-> getPoseAtTime(fs, effectiveTime)]

\* playbackLoop(timestamp): the browser runs one queued callback
playbackLoop ==
    /\ pending > 0
    /\ IF ~isPlaying
       THEN /\ pending' = pending - 1
            /\ lastOp' = Op("playbackLoop", "rejected")
            /\ UNCHANGED <<isPlaying, playCurrentGlobalTime, sampleVars>>
       ELSE LET t == tickOf(frames, playbackMode, now - playStartTime)
                raised == t.outcome.status = Raised.status
            IN  /\ playCurrentGlobalTime' = t.effectiveTime
                /\ sampleTime' = t.effectiveTime
                /\ pose' = t.outcome
                \* an exception in draw() ends the callback: neither
                \* stopPlayback() nor requestAnimationFrame() is reached
                /\ isPlaying' = IF t.finished /\ ~raised THEN FALSE ELSE TRUE
                /\ pending' = IF t.finished \/ raised THEN pending - 1 ELSE pending
                /\ lastOp' = Op("playbackLoop", IF raised THEN "threw" ELSE "ok")
    /\ UNCHANGED <<editVars, exportOutput, standaloneVars, ikVars, playbackMode, playStartTime, now>>

\* a direct call getPoseAtTime(globalTime), as the export pass makes
SampleTimes == 0 .. MaxNow

sample(globalTime) ==
    /\ sampleTime' = globalTime
    /\ pose' = getPoseAtTime(frames, globalTime)
    /\ lastOp' = Op("getPoseAtTime", IF pose'.status = "returned" THEN "ok" ELSE "threw")
    /\ UNCHANGED <<editVars, exportOutput, standaloneVars, ikVars, playVars>>

-----------------------------------------------------------------------------
(* Export: showExportModal bakes the timeline at FPS samples per second *)

FPS == 30

\* The bake counts time in steps of 1/FPS s: a tenth of a second is
\* FPS / 10 steps.
StepsPerTenth == FPS \div 10

\* the timeline with its durations counted in steps.  getPoseAtTime uses
\* times only through differences and their quotients, and its test
\* duration > 0.0001 is, for whole tenths as for whole steps, duration >= 1.
inSteps(fs) ==
    [i \in 1 .. Len(fs) |-> Frame(fs[i].duration * StepsPerTenth, fs[i].points)]

\* a total that counts the last frame's duration too
bakeTotalDurationOfAll(steps) == sumDurations(steps, Len(steps))

\* totalDuration of showExportModal for a timeline counted in steps: the
\* durations of all frames but the last; no positive value is substituted here
bakeTotalDuration(steps) == sumDurations(steps, Len(steps) - 1)

exportDurationOf(mode, totalDuration) ==
    IF mode = "pingpong" THEN totalDuration * 2 ELSE totalDuration

\* while (t <= exportDuration + 0.001), t = k / FPS: 0.001 s is
\* FPS / 1000 of a step
bakeContinues(k, exportDuration) == k * 1000 <= exportDuration * 1000 + FPS

\* a mapping that plays every mode forwards
bakeEffectiveTimeForwards(mode, t, totalDuration) ==
    Max({0, Min({totalDuration, t})})

\* effectiveTime of one pass of the bake loop, clamped to [0, totalDuration]
bakeEffectiveTime(mode, t, totalDuration) ==
    LET raw == CASE mode = "pingpong" ->
                      IF t <= totalDuration THEN t ELSE (totalDuration * 2) - t
                 [] mode = "reverse" -> totalDuration - t
                 [] OTHER -> t
    IN  Max({0, Min({totalDuration, raw})})

\* the pose the pass for step k samples
bakedPose(steps, mode, k) ==
    getPoseAtTime(steps, bakeEffectiveTime(mode, k, bakeTotalDuration(steps)))

\* Math.round(v * 10), v a rational: the nearest whole number of tenths,
\* halves rounded up
roundedTenths(v) == (20 * v[1] + v[2]) \div (2 * v[2])

\* parseFloat(t.toFixed(3)) for t = k / FPS, in milliseconds
fixedMillis(k) == (2000 * k + FPS) \div (2 * FPS)

\* one entry of bakedAnimation; x and y in tenths of a pixel
bakedFrame(k, outcome) ==
    [time |-> fixedMillis(k),
     points |-> [p \in PointIds |-> [id |-> p,
                                     x |-> roundedTenths(outcome.points[p].x),
                                     y |-> roundedTenths(outcome.points[p].y)]]]

\* the bake loop from step k on: the entries collected, or the error a pass
\* raised in getPoseAtTime
Baked(bakedFrames) == [status |-> "baked", frames |-> bakedFrames]

RECURSIVE bakeFrom(_, _, _, _)
bakeFrom(steps, mode, k, bakedFrames) ==
    IF bakeContinues(k, exportDurationOf(mode, bakeTotalDuration(steps)))
    THEN LET outcome == bakedPose(steps, mode, k)
         IN  IF outcome.status = Raised.status
             THEN [status |-> Raised.status, frames |-> <<>>]
             ELSE bakeFrom(steps, mode, k + 1,
                           Append(bakedFrames, bakedFrame(k, outcome)))
    ELSE Baked(bakedFrames)

\* a list of keyframes that starts at the current frame
exportKeyframesFromCurrent(fs) ==
    [i \in 1 .. (Len(fs) - currentFrameIndex) |->
        [id |-> i, duration |-> fs[i + currentFrameIndex].duration,
         points |-> fs[i + currentFrameIndex].points]]

\* "keyframes" of the export: id by position, duration, and of every point
\* id, rounded x and y, and a truthy easing (isIgnored is not written)
exportKeyframes(fs) ==
    [i \in 1 .. Len(fs) |->
        [id |-> i,
         duration |-> fs[i].duration,
         points |-> [p \in PointIds |-> [id |-> p, x |-> fs[i].points[p].x,
                                         y |-> fs[i].points[p].y,
                                         easing |-> fs[i].points[p].easing]]]]

\* exportData; meta.totalDuration in tenths of a second
exportDataOf(fs, mode, bakedFrames) ==
    [status |-> "exported",
     meta |-> [fps |-> FPS,
               mode |-> mode,
               totalDuration |-> exportDurationOf(mode, bakeTotalDuration(inSteps(fs)))
                                   \div StepsPerTenth,
               totalFrames |-> Len(bakedFrames)],
     keyframes |-> exportKeyframes(fs),
     bakedAnimation |-> bakedFrames]

\* showExportModal: the export button.  An error raised in the bake loop
\* ends the handler before exportOutput.value is written.
showExportModal ==
    /\ \E steps \in {inSteps(frames)} :
       \E baked \in {bakeFrom(steps, playbackMode, 0, <<>>)} :
           IF baked.status = Raised.status
           THEN /\ UNCHANGED exportOutput
                /\ lastOp' = Op("showExportModal", "threw")
           ELSE /\ exportOutput' = exportDataOf(frames, playbackMode, baked.frames)
                /\ lastOp' = Op("showExportModal", "ok")
    /\ UNCHANGED <<editVars, playVars, sampleVars, ikVars, standaloneVars>>

-----------------------------------------------------------------------------
(* FK interpolation of two poses: interpolatePoints *)

\* an order that visits the neck (1) before its parent, the spine (2)
neckBeforeSpine == <<7, 1, 2, 8, 10, 9, 11, 0, 3, 5, 4, 6>>

\* the hard-coded order in which the loop visits the joints
FK_TRAVERSAL_ORDER == <<7, 2, 8, 10, 1, 9, 11, 0, 3, 5, 4, 6>>

\* Angles are rationals counting quarter turns (pi / 2).  Math.atan2 of a
\* bone that lies along an axis, as the bones of the poses interpolated
\* here do; atan2(0, 0) is 0.
atan2(dy, dx) ==
    CASE dy = 0 /\ dx >= 0 -> R(0)
      [] dy = 0 /\ dx < 0  -> R(2)
      [] dx = 0 /\ dy > 0  -> R(1)
      [] dx = 0 /\ dy < 0  -> R(-1)

\* while (diff < -Math.PI) diff += Math.PI * 2;
\* while (diff > Math.PI) diff -= Math.PI * 2;
RECURSIVE shortestDiff(_)
shortestDiff(diff) ==
    IF RLt(diff, R(-2)) THEN shortestDiff(RAdd(diff, R(4)))
    ELSE IF RLt(R(2), diff) THEN shortestDiff(RSub(diff, R(4)))
    ELSE diff

\* Math.cos and Math.sin of a whole number of quarter turns
quarter(angle) == ((whole(angle) % 4) + 4) % 4
cos(angle) == CASE quarter(angle) = 0 -> 1 [] quarter(angle) = 2 -> -1 [] OTHER -> 0
sin(angle) == CASE quarter(angle) = 1 -> 1 [] quarter(angle) = 3 -> -1 [] OTHER -> 0

\* a bone that keeps the direction it has in pointsA
angleTUnturned(angleA, diff, tJoint) == angleA

\* const angleT = angleA + diff * tJoint;
angleT(angleA, diff, tJoint) == RAdd(angleA, RMul(diff, tJoint))

\* a bone that keeps the length it has in pointsA
lenTUnblended(lenA, lenB, tJoint) == R(lenA)

\* const lenT = lenA + (lenB - lenA) * tJoint;
lenT(lenA, lenB, tJoint) == RAdd(R(lenA), RMul(R(lenB - lenA), tJoint))

\* resultPoints[7]
interpolatedRoot(pointsA, pointsB, linearT) ==
    LET rootA == pointsA[7]
        rootB == pointsB[7]
        tRoot == getT(pointsB, 7, linearT)
    IN  [id |-> 7,
         x |-> RAdd(R(rootA.x), RMul(R(rootB.x - rootA.x), tRoot)),
         y |-> RAdd(R(rootA.y), RMul(R(rootB.y - rootA.y), tRoot)),
         easing |-> rootB.easing]

\* resultPoints[idx] of a joint whose parent has the entry parentNew
interpolatedJoint(pointsA, pointsB, linearT, parentNew, idx) ==
    LET parentIdx == PARENT_MAP[idx]
        selfA == pointsA[idx]
        parentA == pointsA[parentIdx]
        selfB == pointsB[idx]
        parentB == pointsB[parentIdx]
        tJoint == getT(pointsB, idx, linearT)
        dxA == selfA.x - parentA.x
        dyA == selfA.y - parentA.y
        angleA == atan2(dyA, dxA)
        lenA == hypot(dxA, dyA)
        dxB == selfB.x - parentB.x
        dyB == selfB.y - parentB.y
        angleB == atan2(dyB, dxB)
        lenB == hypot(dxB, dyB)
        diff == shortestDiff(RSub(angleB, angleA))
        angle == angleT(angleA, diff, tJoint)
        len == lenT(lenA, lenB, tJoint)
    IN  [id |-> idx,
         x |-> RAdd(parentNew.x, RMul(R(cos(angle)), len)),
         y |-> RAdd(parentNew.y, RMul(R(sin(angle)), len)),
         easing |-> selfB.easing]

\* no call of interpolatePoints yet
NotInterpolating == [status |-> "idle", i |-> 0, resultPoints |-> <<>>]

\* interpolatePoints up to its loop: the early return of pointsA when a pose
\* has no root, otherwise resultPoints holding the root alone
enterInterpolation(pointsA, pointsB, linearT) ==
    IF 7 \notin DOMAIN pointsA \/ 7 \notin DOMAIN pointsB
    THEN [status |-> "returned", pointsA |-> pointsA, pointsB |-> pointsB,
          linearT |-> linearT, i |-> 0, resultPoints |-> pointsA]
    ELSE [status |-> "running", pointsA |-> pointsA, pointsB |-> pointsB,
          linearT |-> linearT, i |-> 0,
          resultPoints |-> [k \in {7} |-> interpolatedRoot(pointsA, pointsB, linearT)]]

\* one pass of the loop body, for i = call.i.  parentNew.x of a parent whose
\* entry has not been written is a property of undefined: a TypeError.
loopBody(call) ==
    LET idx == FK_TRAVERSAL_ORDER[call.i + 1]
        parentIdx == PARENT_MAP[idx]
        written == call.resultPoints
    IN  IF idx = 7 THEN [call EXCEPT !.i = @ + 1]
        ELSE IF parentIdx \notin DOMAIN written THEN [call EXCEPT !.status = "raised"]
        ELSE [call EXCEPT
                 !.i = @ + 1,
                 !.resultPoints =
                     [k \in DOMAIN written \cup {idx} |->
                         IF k = idx
                         THEN interpolatedJoint(call.pointsA, call.pointsB, call.linearT,
                                                written[parentIdx], idx)
                         ELSE written[k]]]

RECURSIVE runLoop(_)
runLoop(call) ==
    IF call.status # "running" THEN call
    ELSE IF call.i = Len(FK_TRAVERSAL_ORDER) THEN [call EXCEPT !.status = "returned"]
    ELSE runLoop(loopBody(call))

\* interpolatePoints(pointsA, pointsB, linearT), run to its end
interpolatePoints(pointsA, pointsB, linearT) ==
    runLoop(enterInterpolation(pointsA, pointsB, linearT))

\* the same call taken pass by pass
interpolateEnter(pointsA, pointsB, linearT) ==
    /\ interpolation.status # "running"
    /\ interpolation' = enterInterpolation(pointsA, pointsB, linearT)
    /\ lastOp' = Op("interpolatePoints", "entered")
    /\ UNCHANGED <<editVars, playVars, sampleVars, exportOutput, ikVars, player>>

interpolateLoop ==
    /\ interpolation.status = "running"
    /\ interpolation.i < Len(FK_TRAVERSAL_ORDER)
    /\ interpolation' = loopBody(interpolation)
    /\ lastOp' = Op("interpolatePoints", IF interpolation'.status = "raised" THEN "threw" ELSE "loop")
    /\ UNCHANGED <<editVars, playVars, sampleVars, exportOutput, ikVars, player>>

interpolateReturn ==
    /\ interpolation.status = "running"
    /\ interpolation.i = Len(FK_TRAVERSAL_ORDER)
    /\ interpolation' = [interpolation EXCEPT !.status = "returned"]
    /\ lastOp' = Op("interpolatePoints", "ok")
    /\ UNCHANGED <<editVars, playVars, sampleVars, exportOutput, ikVars, player>>

\* poses whose bones lie along the axes, given by the place of the root and
\* the vector from its parent to every other joint
RECURSIVE placeOf(_, _, _)
placeOf(root, bones, j) ==
    IF j = 7 THEN root
    ELSE LET parent == placeOf(root, bones, PARENT_MAP[j])
         IN  <<parent[1] + bones[j][1], parent[2] + bones[j][2]>>

poseOf(root, bones, easings) ==
    [j \in PointIds |->
        Point(placeOf(root, bones, j)[1], placeOf(root, bones, j)[2], easings[j], FALSE)]

SquareBones ==
    [j \in PointIds \ {7} |->
        CASE j \in {0, 1, 2} -> <<0, -50>>
          [] j \in {3, 4}    -> <<-50, 0>>
          [] j \in {5, 6}    -> <<50, 0>>
          [] j = 8           -> <<-30, 0>>
          [] j = 10          -> <<30, 0>>
          [] j \in {9, 11}   -> <<0, 70>>]

\* the bones of SquareBones with other lengths; the right hand (6) lies on
\* the elbow
StretchedBones ==
    [SquareBones EXCEPT ![2] = <<0, -40>>, ![1] = <<0, -60>>, ![3] = <<-30, 0>>,
                        ![4] = <<-70, 0>>, ![6] = <<0, 0>>, ![9] = <<0, 90>>,
                        ![10] = <<40, 0>>]

\* bones of SquareBones turned by one, two and three quarter turns
TurnedBones ==
    [SquareBones EXCEPT ![0] = <<50, 0>>, ![3] = <<0, -50>>, ![4] = <<50, 0>>,
                        ![5] = <<0, 50>>, ![6] = <<-50, 0>>, ![8] = <<0, 30>>,
                        ![9] = <<0, -70>>]

RationalEasings ==
    [j \in PointIds |->
        CASE j = 7 -> "easeOutQuad" [] j = 1 -> "linear" [] j = 0 -> "easeInQuad"
          [] j = 3 -> "easeOutBounce" [] j \in {4, 6} -> "easeOutBack"
          [] j = 9 -> "easeInOutCubic" [] OTHER -> NoEasing]

AllEasings == [RationalEasings EXCEPT ![8] = "easeOutElastic", ![2] = "easeOutBack"]

SquarePose == poseOf(<<400, 330>>, SquareBones, RationalEasings)
StretchedPose == poseOf(<<420, 340>>, StretchedBones, RationalEasings)
TurnedPose == poseOf(<<380, 330>>, TurnedBones, AllEasings)

\* the calls made: between poses whose bones have the same directions at
\* the ends and inside the interval, between any two of the poses at the
\* ends (where every easing and every turn is a rational)
InterpolationCalls ==
    {<<A, B, t>> : A \in {SquarePose, StretchedPose}, B \in {SquarePose, StretchedPose},
                   t \in {R(0), <<1, 4>>, <<1, 2>>, R(1)}}
      \cup {<<A, B, t>> : A \in {SquarePose, StretchedPose, TurnedPose},
                          B \in {SquarePose, StretchedPose, TurnedPose},
                          t \in {R(0), R(1)}}

-----------------------------------------------------------------------------
(* The player page: src/player/player.js.  Its times are counted in
   thousandths of a second, the unit in which the exporter writes the time
   of a baked frame. *)

\* the script state before a file is loaded: isNull says that animationData
\* is null (an empty array is not); drawn is the place in animationData of
\* the frame the last drawFrameAtTime(requested) handed to drawStickman,
\* Null when it drew nothing
playerAtStart ==
    [animationData |-> <<>>, isNull |-> TRUE, animationDuration |-> 0, currentTime |-> 0,
     isPlaying |-> FALSE, requestID |-> Null, pending |-> {},
     requested |-> Null, drawn |-> Null]

\* requestAnimationFrame(loop): the id of the callback it queues.  The ids of
\* a browser never repeat; here an id is used again once no callback and no
\* variable holds it.
RequestIds == 1 .. 3
newRequestID(p) == Min(RequestIds \ (p.pending \cup {p.requestID}))

\* a pause that leaves the queued callback in the queue
pendingLeft(p) == p.pending

\* if (requestID) cancelAnimationFrame(requestID): the callbacks still queued
pendingAfterCancel(p) == p.pending \ {p.requestID}

\* pause()
pause(p) == [p EXCEPT !.isPlaying = FALSE, !.pending = pendingAfterCancel(p)]

\* play()
play(p) ==
    IF p.isNull THEN p
    ELSE [p EXCEPT !.isPlaying = TRUE,
                   !.currentTime = IF @ >= p.animationDuration THEN 0 ELSE @,
                   !.requestID = newRequestID(p),
                   !.pending = @ \cup {newRequestID(p)}]

\* a frame of bakedAnimation
playerFrame(time, k) ==
    [time |-> time,
     points |-> [j \in PointIds |->
                    [id |-> j, x |-> getInitialPose[j].x + k, y |-> getInitialPose[j].y]]]

\* Exports of two keyframes: the first of duration 0.1 s (frames at 0, 1/30,
\* 2/30 and 3/30 s), the same without its meta object, the first of
\* duration 0.05 s (frames at 0 and 1/30 s, the next would lie beyond
\* 0.051 s), and a file of keyframes alone.
TakeOfTenth ==
    [meta |-> [totalDuration |-> 100],
     bakedAnimation |-> <<playerFrame(0, 0), playerFrame(33, 1), playerFrame(67, 2), playerFrame(100, 3)>>]
TakeWithoutMeta == [bakedAnimation |-> TakeOfTenth.bakedAnimation]
TakeOfTwentieth ==
    [meta |-> [totalDuration |-> 50],
     bakedAnimation |-> <<playerFrame(0, 0), playerFrame(33, 1)>>]
TakeWithoutBaked == [meta |-> [totalDuration |-> 100]]

PlayerFiles == {TakeOfTenth, TakeWithoutMeta, TakeOfTwentieth, TakeWithoutBaked}

\* the frame drawFrameAtTime picks: the first whose time >= time, else
\* animationData[0]; none from an empty array
frameAtTime(animationData, time) ==
    LET S == {i \in 1 .. Len(animationData) : animationData[i].time >= time}
    IN  IF S # {} THEN Min(S)
        ELSE IF Len(animationData) > 0 THEN 1
        ELSE Null

\* the player after drawFrameAtTime(time)
drawFrameAtTime(p, time) ==
    IF p.isNull THEN p
    ELSE [p EXCEPT !.requested = time, !.drawn = frameAtTime(p.animationData, time)]

\* animationDuration of loadAnimation: the time of the last frame, 0 without
\* one, and meta.totalDuration when there is one that is not 0
animationDurationOf(data) ==
    LET animationData == data.bakedAnimation
        fromLastFrame == IF Len(animationData) > 0
                         THEN animationData[Len(animationData)].time ELSE 0
    IN  IF "meta" \in DOMAIN data /\ "totalDuration" \in DOMAIN data.meta
           /\ data.meta.totalDuration # 0
        THEN data.meta.totalDuration
        ELSE fromLastFrame

\* loadAnimation(data): the file chosen has been parsed
loadAnimation(data) ==
    /\ IF "bakedAnimation" \notin DOMAIN data
       THEN /\ UNCHANGED player
            /\ lastOp' = Op("loadAnimation", "alert")
       ELSE /\ player' = drawFrameAtTime(
                             [pause(player) EXCEPT
                                  !.animationData = data.bakedAnimation,
                                  !.isNull = FALSE,
                                  !.animationDuration = animationDurationOf(data),
                                  !.currentTime = 0],
                             0)
            /\ lastOp' = Op("loadAnimation", "ok")
    /\ UNCHANGED <<editVars, playVars, sampleVars, exportOutput, ikVars, interpolation>>

\* the positions of the scrubber tried
ScrubberValues == {0, 20, 33, 40, 50, 67, 90, 100}

\* scrubber 'input': the control is enabled by loadAnimation and its max is
\* animationDuration
scrubberInput(value) ==
    /\ ~player.isNull
    /\ value <= player.animationDuration
    /\ player' = drawFrameAtTime([pause(player) EXCEPT !.currentTime = value], value)
    /\ lastOp' = Op("scrubberInput", "ok")
    /\ UNCHANGED <<editVars, playVars, sampleVars, exportOutput, ikVars, interpolation>>

\* btnPlayPause 'click': pause() or play(); play() returns at once while
\* no animation is loaded
playPause ==
    /\ player' = IF player.isPlaying THEN pause(player) ELSE play(player)
    /\ lastOp' = Op("playPause", IF player.isNull THEN "rejected" ELSE "ok")
    /\ UNCHANGED <<editVars, playVars, sampleVars, exportOutput, ikVars, interpolation>>

\* the time between two animation frames
FrameDeltas == {16, 17}

\* loop(timestamp) with delta = timestamp - lastDrawTime: the browser runs a
\* queued callback, which returns at once outside playback and else queues
\* its successor
loop(delta) ==
    /\ \E id \in player.pending :
         LET fired == [player EXCEPT !.pending = @ \ {id}]
             advanced == player.currentTime + delta
             currentTime == IF advanced >= player.animationDuration THEN 0 ELSE advanced
         IN  IF ~player.isPlaying
             THEN /\ player' = fired
                  /\ lastOp' = Op("loop", "rejected")
             ELSE /\ player' = drawFrameAtTime(
                                   [fired EXCEPT !.currentTime = currentTime,
                                                 !.requestID = newRequestID(fired),
                                                 !.pending = @ \cup {newRequestID(fired)}],
                                   currentTime)
                  /\ lastOp' = Op("loop", "ok")
    /\ UNCHANGED <<editVars, playVars, sampleVars, exportOutput, ikVars, interpolation>>

-----------------------------------------------------------------------------
(* The editor: timeline, selection and history under the editing handlers *)

InitRest ==
    /\ currentFrameIndex = 0
    /\ selectedPointIndex = Null
    /\ draggedPointIndex = Null
    /\ stack = <<>>
    /\ redoStack = <<>>
    /\ shared = {}
    /\ isPlaying = FALSE
    /\ playStartTime = 0
    /\ playCurrentGlobalTime = 0
    /\ now = 0
    /\ pending = 0
    /\ lastOp = Op("init", "ok")
    /\ sampleTime = 0
    /\ pose = NotCalled
    /\ exportOutput = NotExported
    /\ isIKEnabled = FALSE
    /\ ikDragData = NoIkDragData
    /\ interpolation = NotInterpolating
    /\ player = playerAtStart

Init ==
    /\ frames = InitialFrames
    /\ playbackMode = "loop"
    /\ InitRest

\* the project files imported in the explored runs
EditorFiles == {FileEmpty, FileSingle, FileEdited}

Next ==
    \/ addNewFrame
    \/ \E index \in 0 .. (MaxFrames - 1) : deleteFrame(index)
    \/ \E index \in 0 .. (MaxFrames - 1) : selectFrame(index)
    \/ \E keyframes \in EditorFiles : loadProject(keyframes)
    \/ undo
    \/ redo

Spec == Init /\ [][Next]_vars

-----------------------------------------------------------------------------
(* The editor under hand-edited project files and the duration sliders *)

LoadFiles ==
    {FileEmpty, FileSingle, FileNegative, FileNoX, FileShort, FileExtra, FileNoPoints}

\* the slider positions tried
SliderValues == {SliderMin, SliderMax}

NextLoad ==
    \/ addNewFrame
    \/ \E index \in 0 .. (MaxFrames - 1) : deleteFrame(index)
    \/ \E index \in 0 .. (MaxFrames - 1), val \in SliderValues : durationInput(index, val)
    \/ \E keyframes \in LoadFiles : loadProject(keyframes)
    \/ undo
    \/ redo

SpecLoad == Init /\ [][NextLoad]_vars

-----------------------------------------------------------------------------
(* The sampler on the timelines the editor can hold *)

SampleEasings == {"easeInQuad", "easeOutSine"}

\* frame i of a sampled timeline: every varied joint moved to a place of its
\* own in that frame
keyedPose(i) ==
    [p \in PointIds |->
        IF p \in 0 .. (MaxJoint + 1)
        THEN Point(getInitialPose[p].x + 10 * i, getInitialPose[p].y - 20 * i,
                   NoEasing, FALSE)
        ELSE getInitialPose[p]]

\* the duration of frame i: all 0.2 s, or 0.2 s and 0.4 s in turn
sampleDuration(pattern, i) == IF pattern = 1 /\ i % 2 = 0 THEN 4 ELSE 2

\* Timelines of n frames.  Joint j carries any passthrough pattern and, in one
\* frame ke, an easing name (known or not); joint o carries an unknown easing
\* name in its second frame or none at all.
SampleTimelines ==
    UNION {
      { [i \in 1 .. n |->
            Frame(IF i < n THEN sampleDuration(pattern, i) ELSE DefaultDuration,
                  [keyedPose(i - 1) EXCEPT
                      ![j].easing = IF i = ke THEN e ELSE NoEasing,
                      ![j].isIgnored = g[i],
                      ![o].easing = IF i = 2 THEN eo ELSE NoEasing])] :
          pattern \in {0, 1},
          ke \in 1 .. n,
          e \in SampleEasings \cup {NoEasing},
          g \in [1 .. n -> BOOLEAN],
          eo \in {NoEasing, "easeOutSine"},
          j \in Joints, o \in {MaxJoint + 1} }
      : n \in 1 .. MaxFrames }

InitSampler ==
    /\ frames \in SampleTimelines
    /\ playbackMode = "loop"
    /\ InitRest

lastStart(fs) == frameStartTime(fs, Len(fs) - 1)

NextSampler ==
    \E globalTime \in 0 .. (lastStart(frames) + 1) : sample(globalTime)

SpecSampler == InitSampler /\ [][NextSampler]_vars

-----------------------------------------------------------------------------
(* Export of a timeline, between changes of selection, history and playing flag *)

BakeTimelines ==
    { parsedFrames(FileSingle),
      <<Frame(1, getInitialPose), Frame(DefaultDuration, keyedPose(1))>>,
      <<Frame(1, getInitialPose),
        Frame(1, [keyedPose(1) EXCEPT ![0].isIgnored = TRUE]),
        Frame(DefaultDuration, keyedPose(2))>>,
      parsedFrames(FileEdited),
      parsedFrames(FileNegative) }

\* the pointer goes down where the head is at rest: on the head in a
\* frame that has it there, on no joint in the others
BakePointer == {<<getInitialPose[0].x, getInitialPose[0].y>>}

InitBake ==
    /\ frames \in BakeTimelines
    /\ playbackMode \in PlaybackModes
    /\ InitRest

NextBake ==
    \/ showExportModal
    \/ \E globalTime \in 1 .. 1 : sample(globalTime)
    \/ \E index \in 0 .. (MaxFrames - 1) : selectFrame(index)
    \/ \E pos \in BakePointer : handleMouseDown(pos)
    \/ startPlayback

SpecBake == InitBake /\ [][NextBake]_vars

-----------------------------------------------------------------------------
(* Export followed by an import of the exported keyframes *)

\* the import handler given the text showExportModal wrote: data.keyframes
\* is the keyframes list of the export
importExported ==
    /\ exportOutput.status = "exported"
    /\ loadProject(exportOutput.keyframes)

\* timelines of the editor: the initial one, and one with a passthrough
\* point and an easing chosen in the properties panel
RoundTripTimelines ==
    { InitialFrames,
      <<Frame(2, getInitialPose),
        Frame(DefaultDuration, [keyedPose(1) EXCEPT ![0].isIgnored = TRUE]),
        Frame(DefaultDuration, [keyedPose(2) EXCEPT ![0].easing = "linear"])>> }

\* the slider positions tried between exports
RoundTripDurations == {SliderMin, SliderMin + 1}

InitRoundTrip ==
    /\ frames \in RoundTripTimelines
    /\ playbackMode = "loop"
    /\ InitRest

NextRoundTrip ==
    \/ showExportModal
    \/ importExported
    \/ \E index \in 0 .. (MaxFrames - 1) : selectFrame(index)
    \/ \E index \in 0 .. (MaxFrames - 1), val \in RoundTripDurations :
           durationInput(index, val)

SpecRoundTrip == InitRoundTrip /\ [][NextRoundTrip]_vars

-----------------------------------------------------------------------------
(* Posing by forward kinematics: drags of the hip, the neck, an elbow and a
   hand while the IK checkbox is off *)

FKPresses == {<<getInitialPose[p].x, getInitialPose[p].y>> : p \in {7, 1, 3, 4}}
FKTargets == {<<410, 320>>, <<380, 250>>}

NextFK ==
    \/ \E pos \in FKPresses : handleMouseDown(pos)
    \/ \E pos \in FKTargets : handleMouseMove(pos)
    \/ handleMouseUp
    \/ \E keyframes \in {FileShort} : loadProject(keyframes)
    \/ undo

SpecFK == Init /\ [][NextFK]_vars

-----------------------------------------------------------------------------
(* Posing: drags of the left arm with and without inverse kinematics *)

\* The left arm (two segments of 50 px from the neck) at rest and bent: the
\* pose an IK drag of the hand of the rest pose to 80 px left of the neck
\* leaves (elbow at (360, 260), a 30-40-50 triangle on either side).
BentArm == solveTwoJointIK(getInitialPose, ikDragDataOf(getInitialPose, 4),
                           getInitialPose[1].x - 80, getInitialPose[1].y)

DragTimeline == <<Frame(DefaultDuration, getInitialPose), Frame(DefaultDuration, BentArm)>>

\* where the pointer goes down (on the hand of the arm at rest, on the hand
\* of the bent arm) and where it is moved to (60 px left of the neck, again
\* a 30-40-50 triangle).  A press finds the hand only in a frame no drag has
\* changed, so every chain measured at a press has whole lengths.  The file
\* that can be imported between two pointer events holds the rest pose
\* without its last joint.
HandAtRest == <<getInitialPose[4].x, getInitialPose[4].y>>
HandBent == <<BentArm[4].x, BentArm[4].y>>
ArmTarget == <<getInitialPose[1].x - 60, getInitialPose[1].y>>

InitDrag ==
    /\ frames = DragTimeline
    /\ playbackMode = "loop"
    /\ InitRest

NextDrag ==
    \/ \E pos \in {HandAtRest, HandBent} : handleMouseDown(pos)
    \/ \E pos \in {ArmTarget} : handleMouseMove(pos)
    \/ handleMouseUp
    \/ \E checked \in BOOLEAN : ikToggle(checked)
    \/ \E index \in 0 .. (MaxFrames - 1) : selectFrame(index)
    \/ \E keyframes \in {FileShort} : loadProject(keyframes)
    \/ undo
    \/ redo

SpecDrag == InitDrag /\ [][NextDrag]_vars

-----------------------------------------------------------------------------
(* The history under a long run of saved actions: the head is selected and
   its passthrough box is toggled any number of times, with undo and redo *)

HeadAtRest == <<getInitialPose[0].x, getInitialPose[0].y>>

\* the box state a click on the passthrough box (or the P key) leaves
toggled == ~FrameAt(frames, currentFrameIndex).points[selectedPointIndex].isIgnored

NextHistory ==
    \/ \E pos \in {HeadAtRest} : handleMouseDown(pos)
    \/ handleMouseUp
    \/ selectedPointIndex # Null /\ \E checked \in {toggled} : passthroughChange(checked)
    \/ undo
    \/ redo

SpecHistory == Init /\ [][NextHistory]_vars

-----------------------------------------------------------------------------
(* The editing handlers that write into a points array, among those that add
   frames, take snapshots and restore them *)

NextEdit ==
    \/ \E pos \in {HandAtRest} : handleMouseDown(pos)
    \/ \E pos \in {ArmTarget} : handleMouseMove(pos)
    \/ handleMouseUp
    \/ Len(stack) <= MaxStack /\ \E value \in SelectableEasings : easingChange(value)
    \/ Len(stack) <= MaxStack /\ selectedPointIndex # Null
          /\ \E checked \in {toggled} : passthroughChange(checked)
    \/ addNewFrame
    \/ \E keyframes \in {FileSingle} : loadProject(keyframes)
    \/ undo
    \/ redo

SpecEdit == Init /\ [][NextEdit]_vars

-----------------------------------------------------------------------------
(* The FK interpolator called on pairs of poses *)

NextInterpolate ==
    \/ \E call \in InterpolationCalls : interpolateEnter(call[1], call[2], call[3])
    \/ interpolateLoop
    \/ interpolateReturn

SpecInterpolate == Init /\ [][NextInterpolate]_vars

-----------------------------------------------------------------------------
(* The player page under files, the scrubber and playback *)

NextPlayer ==
    \/ \E data \in PlayerFiles : loadAnimation(data)
    \/ \E value \in ScrubberValues : scrubberInput(value)
    \/ playPause
    \/ \E delta \in FrameDeltas : loop(delta)

SpecPlayer == Init /\ [][NextPlayer]_vars


-----------------------------------------------------------------------------
(* Playback of a timeline under the clock and the frame callbacks *)

PlayTimelines ==
    { parsedFrames(FileSingle),
      <<Frame(2, getInitialPose), Frame(DefaultDuration, keyedPose(1))>>,
      <<Frame(2, getInitialPose), Frame(2, keyedPose(1)), Frame(DefaultDuration, keyedPose(2))>>,
      parsedFrames(FileEdited),
      parsedFrames(FileNegative) }

InitPlay ==
    /\ frames \in PlayTimelines
    /\ playbackMode \in PlaybackModes
    /\ InitRest

NextPlay ==
    \/ startPlayback
    \/ stopPlayback
    \/ playbackLoop
    \/ advanceClock

SpecPlay == InitPlay /\ [][NextPlay]_vars

-----------------------------------------------------------------------------
(* Properties of the sampler, over SpecSampler *)

\* a state right after a call getPoseAtTime(sampleTime) on the timeline frames
Sampled == lastOp.op = "getPoseAtTime"

\* start time of frame k: the durations of the k frames before it
startOf(k) == sumDurations(frames, k)

storedPoint(i, j) == FrameAt(frames, i).points[j]

\* the frames that key joint j: before frame k, after frame k, anywhere
keysBefore(j, k) == {i \in 0 .. (k - 1) : ~storedPoint(i, j).isIgnored}
keysAfter(j, k) == {i \in (k + 1) .. (Len(frames) - 1) : ~storedPoint(i, j).isIgnored}
keysOf(j) == {i \in 0 .. (Len(frames) - 1) : ~storedPoint(i, j).isIgnored}

\* the timeline has at least 3 frames of positive duration, joint j is ignored
\* at the inner frame k, and the call sampled the start time of frame k
PassedThroughAt(j, k) ==
    /\ Sampled
    /\ Len(frames) >= 3
    /\ \A i \in 1 .. Len(frames) : frames[i].duration > 0
    /\ 0 < k /\ k < Len(frames) - 1
    /\ storedPoint(k, j).isIgnored
    /\ sampleTime = startOf(k)

\* some joint's nearest keyed point after frame k names an easing that
\* EasingFunctions does not have
UnknownEasingAhead(k) ==
    \E p \in PointIds :
        /\ keysAfter(p, k) # {}
        /\ storedPoint(Min(keysAfter(p, k)), p).easing \notin (EasingNames \cup {NoEasing})

\* (x, y) of joint j at the start of frame k when frame k is skipped for j:
\* the blend from the nearest key before k (frame 0 when there is none) to
\* the nearest key after k, at the eased fraction of the way between their
\* start times; the value of the key before k when no key follows
blendAcross(j, k) ==
    LET src == IF keysBefore(j, k) = {} THEN 0 ELSE Max(keysBefore(j, k))
        a == storedPoint(src, j)
    IN  IF keysAfter(j, k) = {}
        THEN <<R(a.x), R(a.y)>>
        ELSE LET n == Min(keysAfter(j, k))
                 b == storedPoint(n, j)
                 u == Rat(startOf(k) - startOf(src), startOf(n) - startOf(src))
                 e == ApplyEasing(IF b.easing = NoEasing THEN defaultEasing ELSE b.easing, u)
             IN  <<RAdd(R(a.x), RMul(R(b.x - a.x), e)),
                   RAdd(R(a.y), RMul(R(b.y - a.y), e))>>

posedAt(outcome, j) == <<outcome.points[j].x, outcome.points[j].y>>

C2_HoldsLastKey ==
    Sampled =>
        \A j \in PointIds :
            (keysOf(j) # {} /\ sampleTime >= startOf(Max(keysOf(j)))) =>
                LET K == storedPoint(Max(keysOf(j)), j)
                IN  /\ pose.status = "returned"
                    /\ posedAt(pose, j) = <<R(K.x), R(K.y)>>

\* the timeline frames with the easing attribute of every joint but j removed:
\* same durations, same x, y, easing and isIgnored of j in every frame
withoutOtherEasings(j) ==
    [i \in 1 .. Len(frames) |->
        Frame(frames[i].duration,
              [p \in PointIds |->
                  IF p = j THEN frames[i].points[p]
                  ELSE [frames[i].points[p] EXCEPT !.easing = NoEasing]])]

\* C3: two timelines with the same durations that agree on joint j in every
\* frame give the same (x, y) for j at every sampled time, whatever the other
\* joints carry (here: the timeline, and the timeline with the other joints'
\* easing attributes removed)
C3_JointIndependence ==
    Sampled =>
        \A j \in Joints :
            LET other == getPoseAtTime(withoutOtherEasings(j), sampleTime)
            IN  /\ pose.status = other.status
                /\ pose.status = "returned" => posedAt(pose, j) = posedAt(other, j)

\* the timeline frames with easeInOutCubic written wherever a point's easing
\* is missing or no key of EasingFunctions
withDefaultEasings ==
    [i \in 1 .. Len(frames) |->
        Frame(frames[i].duration,
              [p \in PointIds |->
                  IF frames[i].points[p].easing \in EasingNames THEN frames[i].points[p]
                  ELSE [frames[i].points[p] EXCEPT !.easing = defaultEasing]])]

\* C4: a missing or unknown easing name acts as easeInOutCubic and raises no
\* error, in the sampler (every call returns the pose it returns with
\* easeInOutCubic written in place of such names) and in getT of
\* interpolatePoints
C4_EasingFallback ==
    Sampled =>
        /\ pose.status = "returned"
        /\ LET named == getPoseAtTime(withDefaultEasings, sampleTime)
           IN  \A j \in PointIds : posedAt(pose, j) = posedAt(named, j)
        /\ \A i \in 1 .. Len(frames) : \A j \in PointIds :
              frames[i].points[j].easing \notin EasingNames =>
                  getT(frames[i].points, j, <<1, 4>>) = easeInOutCubic(<<1, 4>>)

-----------------------------------------------------------------------------
(* Properties of the editor, over Spec *)

\* C5: in every state reachable by addNewFrame, deleteFrame (with the current
\* or any frame's index), loadProject, undo and redo, State.frames holds at
\* least one frame
C5_AtLeastOneFrame == Len(frames) >= 1

\* C5, reached: the timeline is back at one frame by an undo
C5_OneFrameAfterUndo ==
    /\ Len(frames) = 1
    /\ lastOp.op = "undo"
    /\ Len(redoStack) > 0

\* C6: deleteFrame on a timeline of exactly one frame changes none of frames,
\* currentFrameIndex, selectedPointIndex, the undo stack and the redo stack,
\* and ends without an error
C6_DeleteLastFrameIsNoOp ==
    [][(Len(frames) = 1 /\ lastOp'.op = "deleteFrame") =>
          /\ UNCHANGED <<frames, currentFrameIndex, selectedPointIndex, stack, redoStack>>
          /\ lastOp'.outcome = "rejected"]_vars

\* C6, reached: deleteFrame has just been rejected on a one-frame timeline
C6_DeleteRejectedOnOneFrame ==
    /\ Len(frames) = 1
    /\ lastOp = Op("deleteFrame", "rejected")

-----------------------------------------------------------------------------
(* Properties of playback, over SpecPlay *)

\* a state right after a playbackLoop call that got past its isPlaying guard
Ticked == lastOp.op = "playbackLoop" /\ lastOp.outcome # "rejected"

\* elapsed of that call: no time passes between its timestamp and its end
elapsedNow == now - playStartTime

\* C7: right after stopPlayback returns, no playbackLoop callback remains
\* scheduled
C7_StopCancelsTick == lastOp = Op("stopPlayback", "ok") => pending = 0

\* C8: in mode 'once' playback finishes: while State.isPlaying is set a tick
\* stays scheduled; the tick with elapsed >= totalDuration leaves
\* playCurrentGlobalTime at totalDuration and clears isPlaying; a tick
\* before it leaves playCurrentGlobalTime at elapsed
C8_OnceFinishes ==
    playbackMode = "once" =>
        /\ isPlaying => pending > 0
        /\ Ticked =>
              IF elapsedNow >= totalDurationOf(frames)
              THEN playCurrentGlobalTime = totalDurationOf(frames) /\ ~isPlaying
              ELSE playCurrentGlobalTime = elapsedNow /\ isPlaying

\* the rise and fall of 'pingpong' for every elapsed and total duration in
\* range of the clock, and the four values for T = 10
pingpongFormula ==
    /\ \A T \in 1 .. MaxNow : \A elapsed \in 0 .. (3 * MaxNow) :
          LET c == elapsed % (2 * T)
          IN  pingpongTime(elapsed, T) = IF c <= T THEN c ELSE 2 * T - c
    /\ pingpongTime(0, 10) = 0
    /\ pingpongTime(10, 10) = 10
    /\ pingpongTime(15, 10) = 5
    /\ pingpongTime(20, 10) = 0

\* C9: in mode 'pingpong', with c = elapsed mod 2T, a tick leaves the
\* effective time c when c <= T and 2T - c otherwise; for T = 10 the
\* effective times at elapsed 0, 10, 15, 20 are 0, 10, 5, 0
C9_PingPong ==
    /\ pingpongFormula
    /\ (playbackMode = "pingpong" /\ Ticked) =>
          LET T == totalDurationOf(frames)
              c == elapsedNow % (2 * T)
          IN  playCurrentGlobalTime = IF c <= T THEN c ELSE 2 * T - c

\* C9, reached: a pingpong tick on the falling half of the cycle
C9_FallingHalf ==
    /\ playbackMode = "pingpong"
    /\ Ticked
    /\ elapsedNow % (2 * totalDurationOf(frames)) > totalDurationOf(frames)
    /\ playCurrentGlobalTime < totalDurationOf(frames)
    /\ playCurrentGlobalTime > 0

\* C10 (as the code has it): in mode 'loop' a tick leaves the effective time
\* elapsed mod T, except at elapsed = T exactly, where it leaves T (the end
\* of the timeline); at every later multiple of T it leaves 0
C10_LoopModExceptAtEnd ==
    (playbackMode = "loop" /\ Ticked) =>
        LET T == totalDurationOf(frames)
        IN  playCurrentGlobalTime = IF elapsedNow = T THEN T ELSE elapsedNow % T

\* C10, reached: a loop tick at elapsed = T exactly, left at T
C10_TickAtEnd ==
    /\ playbackMode = "loop"
    /\ Ticked
    /\ elapsedNow = totalDurationOf(frames)
    /\ playCurrentGlobalTime = totalDurationOf(frames)

\* C10 as stated: in mode 'loop' a tick leaves the effective time
\* elapsed mod T, which is 0 at elapsed = T and at every multiple of T
C10_LoopIsMod ==
    (playbackMode = "loop" /\ Ticked) =>
        playCurrentGlobalTime = elapsedNow % totalDurationOf(frames)

\* C11 (as the code has it): in mode 'reverse' a tick leaves the effective
\* time T - (elapsed mod T), except at elapsed = T exactly, where it leaves
\* 0 (the start of the timeline); at elapsed = 0 and at every later multiple
\* of T it leaves T
C11_ReverseModExceptAtEnd ==
    (playbackMode = "reverse" /\ Ticked) =>
        LET T == totalDurationOf(frames)
        IN  playCurrentGlobalTime = IF elapsedNow = T THEN 0 ELSE T - (elapsedNow % T)

\* C11, reached: a reverse tick at elapsed = T exactly, left at 0
C11_ReverseTickAtEnd ==
    /\ playbackMode = "reverse"
    /\ Ticked
    /\ elapsedNow = totalDurationOf(frames)
    /\ playCurrentGlobalTime = 0

\* C11 as stated: in mode 'reverse' a tick leaves the effective time
\* T - (elapsed mod T), which is T at elapsed = T and at every multiple of T
C11_ReverseIsMod ==
    (playbackMode = "reverse" /\ Ticked) =>
        LET T == totalDurationOf(frames)
        IN  playCurrentGlobalTime = T - (elapsedNow % T)

\* D of a timeline: the durations of all frames but the last, added up one
\* by one, or 0.1 s when that sum is not positive
sumBeforeLast == sumDurations(frames, Len(frames) - 1)
rangeEnd == IF sumBeforeLast > 0 THEN sumBeforeLast ELSE 1

\* C12: in every mode a tick with elapsed >= 0 leaves playCurrentGlobalTime
\* a number in [0, D], D the sum of the durations of all frames but the last
\* or the substituted 0.1 s when that sum is <= 0; the divisor of every
\* remainder a tick takes (D, or 2D in 'pingpong') is positive
C12_TimeWithinRange ==
    (Ticked /\ elapsedNow >= 0) =>
        /\ rangeEnd > 0
        /\ totalDurationOf(frames) = rangeEnd
        /\ playCurrentGlobalTime \in 0 .. rangeEnd

\* C12, reached: a tick past the end of a timeline whose durations do not
\* add up to a positive total, left inside the substituted range
C12_TickOnSubstitutedTotal ==
    /\ Ticked
    /\ sumBeforeLast <= 0
    /\ elapsedNow > rangeEnd
    /\ playCurrentGlobalTime \in 0 .. rangeEnd

-----------------------------------------------------------------------------
(* Export: the baker's time mapping, its samples, determinism, read-only *)

Exported == lastOp = Op("showExportModal", "ok")

\* the sum of the durations before the last frame, in steps of 1/FPS s
stepsBeforeLast == sumBeforeLast * StepsPerTenth

\* the export duration in steps: twice the sum in pingpong mode
exportSteps == IF playbackMode = "pingpong" THEN 2 * stepsBeforeLast ELSE stepsBeforeLast

\* the time a tick of playbackLoop computes for an elapsed time of k steps
tickedAt(k) == effectiveTimeOf(playbackMode, k, totalDurationOf(frames) * StepsPerTenth)

\* the time the baker samples at step k
bakedAt(k) == bakeEffectiveTime(playbackMode, k, stepsBeforeLast)

C14_BakeSamples ==
    Exported =>
        LET bakedAnimation == exportOutput.bakedAnimation
            n == Len(bakedAnimation)
        IN  /\ n >= 1
            /\ bakedAnimation[1].time = 0
            /\ \A i \in 1 .. n : bakedAnimation[i].time = ((i - 1) * 2000 + FPS) \div (2 * FPS)
            /\ n - 1 <= exportSteps
            /\ n > exportSteps
            /\ exportOutput.meta.totalFrames = n

\* C14: an export of a timeline whose durations before the last frame sum to
\* less than 0 has no sample
C14_ExportWithoutSamples ==
    /\ Exported
    /\ exportSteps < 0
    /\ exportOutput.bakedAnimation = <<>>

-----------------------------------------------------------------------------
(* Properties of the loader and of the stored frames, over SpecLoad *)

\* some point of some keyframe of the file lacks x or lacks y
lacksCoordinate(keyframes) ==
    \E i \in 1 .. Len(keyframes) :
        /\ "points" \in DOMAIN keyframes[i]
        /\ \E p \in DOMAIN keyframes[i].points :
               {"x", "y"} \ DOMAIN keyframes[i].points[p] # {}

\* C17 as stated: a load of a file whose keyframes list is empty, or one of
\* whose points lacks a numeric x or y, ends with the alert and leaves the
\* timeline as it was
C17_MalformedFileRejected ==
    [][\A keyframes \in LoadFiles :
          (loadProject(keyframes) /\ (Len(keyframes) = 0 \/ lacksCoordinate(keyframes)))
              => (lastOp'.outcome = "alert" /\ frames' = frames)]_vars

\* C17: a load that was accepted has left a point whose x is NaN in the
\* timeline
C17_AcceptedWithoutX ==
    /\ lastOp = Op("loadProject", "ok")
    /\ \E i \in 1 .. Len(frames) : \E p \in DOMAIN frames[i].points :
           frames[i].points[p].x = NaN

\* C18 as stated: a load that ends with the alert leaves frames and
\* currentFrameIndex as they were
C18_FailedLoadAtomic ==
    [][(lastOp'.op = "loadProject" /\ lastOp'.outcome = "alert")
          => UNCHANGED <<frames, currentFrameIndex>>]_vars

\* C18: a load has ended with the alert and the timeline holds the file's
\* frame of 11 points
C18_AlertAfterReplacement ==
    /\ lastOp = Op("loadProject", "alert")
    /\ frames = parsedFrames(FileShort)

\* C19 as stated: every frame's duration is greater than 0
C19_DurationsPositive ==
    \A i \in 1 .. Len(frames) : frames[i].duration > 0

\* C19: a frame with a negative duration, after an accepted load
C19_NegativeDurationLoaded ==
    /\ lastOp = Op("loadProject", "ok")
    /\ \E i \in 1 .. Len(frames) : frames[i].duration < 0

\* C20 as stated: every frame holds a point for each of the indices 0..11
\* and for no other
C20_TwelvePoints ==
    \A i \in 1 .. Len(frames) : DOMAIN frames[i].points = PointIds

\* C20: a frame of 13 points, after an accepted load
C20_ThirteenPointsLoaded ==
    /\ lastOp = Op("loadProject", "ok")
    /\ \E i \in 1 .. Len(frames) : Cardinality(DOMAIN frames[i].points) = numPoints + 1

-----------------------------------------------------------------------------
(* Properties of the keyframe round trip, over SpecRoundTrip *)

\* C21 as stated: loading the keyframes list of an export of the current
\* timeline yields as many frames, in order, with the same duration and, for
\* every point, the same x, y, easing and isIgnored
C21_KeyframesRoundTrip ==
    [][(/\ lastOp'.op = "loadProject"
        /\ exportOutput.status = "exported"
        /\ exportOutput.keyframes = exportKeyframes(frames))
          => /\ Len(frames') = Len(frames)
             /\ \A i \in 1 .. Len(frames) :
                    /\ frames'[i].duration = frames[i].duration
                    /\ DOMAIN frames'[i].points = DOMAIN frames[i].points
                    /\ \A p \in DOMAIN frames[i].points :
                           /\ frames'[i].points[p].x = frames[i].points[p].x
                           /\ frames'[i].points[p].y = frames[i].points[p].y
                           /\ frames'[i].points[p].easing = frames[i].points[p].easing
                           /\ frames'[i].points[p].isIgnored = frames[i].points[p].isIgnored]_vars

\* C21: what does survive the round trip: the frames, their durations, and
\* x, y and easing of every point
C21_RoundTripButPassthrough ==
    [][(/\ lastOp'.op = "loadProject"
        /\ exportOutput.status = "exported"
        /\ exportOutput.keyframes = exportKeyframes(frames))
          => /\ Len(frames') = Len(frames)
             /\ \A i \in 1 .. Len(frames) :
                    /\ frames'[i].duration = frames[i].duration
                    /\ \A p \in DOMAIN frames[i].points :
                           /\ frames'[i].points[p].x = frames[i].points[p].x
                           /\ frames'[i].points[p].y = frames[i].points[p].y
                           /\ frames'[i].points[p].easing = frames[i].points[p].easing
                           /\ ~frames'[i].points[p].isIgnored]_vars

-----------------------------------------------------------------------------
(* Properties of the frame operations and of the drags *)

\* C22 as stated: addNewFrame on n frames with current index i leaves n + 1 frames:
\* the frame at index i + 1 has duration 0.5 and points equal in value to
\* those of frame i, held in an object of their own; the frames up to i and
\* the frames after i keep their content and order; currentFrameIndex is
\* i + 1
C22_AddNewFrameClones ==
    [][(lastOp'.op = "addNewFrame") =>
          LET i == currentFrameIndex
              n == Len(frames)
          IN  /\ Len(frames') = n + 1
              /\ FrameAt(frames', i + 1).duration = DefaultDuration
              /\ FrameAt(frames', i + 1).points = FrameAt(frames, i).points
              /\ clonedPointsObject(i).kind = "new"
              /\ \A k \in 0 .. i : FrameAt(frames', k) = FrameAt(frames, k)
              /\ \A k \in (i + 1) .. (n - 1) : FrameAt(frames', k + 1) = FrameAt(frames, k)
              /\ currentFrameIndex' = i + 1]_vars

\* C22: a frame added after a frame whose head has x = NaN: the copy has
\* x = null
C22_CloneOfNaN ==
    /\ lastOp.op = "addNewFrame"
    /\ FrameAt(frames, currentFrameIndex - 1).points[0].x = NaN
    /\ FrameAt(frames, currentFrameIndex).points[0].x = JsonNull

\* the squared lengths of the two segments of the chain of ikDragData in a
\* points array
segmentLengths(points, ikData) ==
    LET root == points[ikData.rootIdx]
        joint == points[ikData.jointIdx]
        effector == points[ikData.effectorIdx]
    IN  <<(joint.x - root.x) * (joint.x - root.x) + (joint.y - root.y) * (joint.y - root.y),
          (effector.x - joint.x) * (effector.x - joint.x)
            + (effector.y - joint.y) * (effector.y - joint.y)>>

\* a pointer move that is taken, and by which kinematics
Moved == lastOp'.op = "handleMouseMove" /\ lastOp'.outcome # "rejected"
MovedByIK == Moved /\ ikApplies
MovedByFK == Moved /\ ~ikApplies

\* C23: every step of the IK solver leaves the two segment lengths of the
\* chain as they were in the frame it modifies, also when a frame selection,
\* an undo or redo or a switch of the IK checkbox has come between the press
\* and the pointer move.
C23_IKPreservesSegmentLengths ==
    [][MovedByIK
         => segmentLengths(FrameAt(frames', currentFrameIndex).points, ikDragData)
              = segmentLengths(FrameAt(frames, currentFrameIndex).points, ikDragData)]_vars

\* every step of the IK solver leaves the chain with the two lengths measured
\* at the press
C23_IKSetsMeasuredLengths ==
    [][MovedByIK
         => segmentLengths(FrameAt(frames', currentFrameIndex).points, ikDragData)
              = <<ikDragData.d1 * ikDragData.d1, ikDragData.d2 * ikDragData.d2>>]_vars

\* the cross product of (middle - root) and (effector - root) of the chain of
\* effector i in the current frame
chainCross(i) ==
    LET points == FrameAt(frames, currentFrameIndex).points
        root == points[IK_CHAINS[i][2]]
        mid == points[IK_CHAINS[i][1]]
        effector == points[i]
    IN  (mid.x - root.x) * (effector.y - root.y) - (mid.y - root.y) * (effector.x - root.x)

\* a press that finds an effector while IK is enabled
PressedEffector ==
    /\ lastOp'.op = "handleMouseDown" /\ lastOp'.outcome # "rejected"
    /\ isIKEnabled
    /\ selectedPointIndex' \in DOMAIN IK_CHAINS

BendDirSet ==
    /\ ikDragData'.effectorIdx = selectedPointIndex'
    /\ ikDragData'.bendDir = IF chainCross(selectedPointIndex') > 0 THEN 1 ELSE -1

\* C24: a press on an effector (4, 6, 9, 11) with IK enabled sets bendDir to
\* +1 when the cross product of (middle - root) and (effector - root) is
\* positive and to -1 otherwise, and no pointer move changes bendDir, d1 or
\* d2: they stay as the press set them until the button is released.
C24_BendDirSetAtPress ==
    [][/\ PressedEffector => BendDirSet
       /\ lastOp'.op = "handleMouseMove" => ikDragData' = ikDragData]_vars

\* the same where the current frame holds all twelve joints, so that the
\* draw() of selectPoint returns
C24_BendDirSetWhereDrawn ==
    [][/\ (PressedEffector /\ ~drawEditRaises(frames, currentFrameIndex)) => BendDirSet
       /\ lastOp'.op = "handleMouseMove" => ikDragData' = ikDragData]_vars

\* the elbow has been put on the other side by a solve whose bendDir, +1,
\* was set at the press on the hand of the bent arm
C24_MovedWithBendSetAtPress ==
    /\ lastOp.op = "handleMouseMove" /\ ikApplies
    /\ ikDragData.effectorIdx = 4
    /\ ikDragData.bendDir = 1
    /\ FrameAt(frames, currentFrameIndex).points[3].y < getInitialPose[1].y

\* the joints met when following parents from joint i (joint i not included)
RECURSIVE ancestors(_)
ancestors(i) ==
    IF PARENT_MAP[i] = Null THEN {} ELSE {PARENT_MAP[i]} \cup ancestors(PARENT_MAP[i])

\* joint j and its descendants in PARENT_MAP
subtree(j) == {i \in PointIds : i = j \/ j \in ancestors(i)}

\* points after is points before with joint j and its descendants translated
\* by the displacement of j, and every other joint as it was
translatedSubtree(before, after, j) ==
    LET dx == after[j].x - before[j].x
        dy == after[j].y - before[j].y
    IN  /\ DOMAIN after = DOMAIN before
        /\ \A i \in subtree(j) :
              /\ i \in DOMAIN after
              /\ after[i] = [before[i] EXCEPT !.x = @ + dx, !.y = @ + dy]
        /\ \A i \in DOMAIN before \ subtree(j) : after[i] = before[i]

\* C25: a pointer move that drags joint j without IK translates j and every
\* descendant of j in PARENT_MAP by the displacement of j, each once, and
\* leaves every other joint unchanged; dragging the root 7 translates all
\* twelve joints.
C25_FKTranslatesSubtree ==
    [][MovedByFK
         => /\ translatedSubtree(FrameAt(frames, currentFrameIndex).points,
                                 FrameAt(frames', currentFrameIndex).points,
                                 draggedPointIndex)
            /\ draggedPointIndex = 7 => subtree(7) = PointIds]_vars

\* the same on the frames that hold the twelve joints
C25_FKTranslatesSubtreeOfTwelve ==
    [][(MovedByFK /\ DOMAIN FrameAt(frames, currentFrameIndex).points = PointIds)
         => /\ translatedSubtree(FrameAt(frames, currentFrameIndex).points,
                                 FrameAt(frames', currentFrameIndex).points,
                                 draggedPointIndex)
            /\ draggedPointIndex = 7 => subtree(7) = PointIds]_vars

\* a drag of the neck has moved the head, both arms and nothing else
C25_NeckDragged ==
    /\ lastOp.op = "handleMouseMove" /\ draggedPointIndex = 1
    /\ DOMAIN FrameAt(frames, currentFrameIndex).points = PointIds
    /\ \A i \in PointIds :
          (FrameAt(frames, currentFrameIndex).points[i] # getInitialPose[i])
             <=> i \in {0, 1, 3, 4, 5, 6}

-----------------------------------------------------------------------------
(* Properties of the skeleton and of the FK interpolator *)

\* the place of joint j in an order of the joints
positionIn(order, j) == CHOOSE k \in 1 .. Len(order) : order[k] = j

\* the joint the running loop visits next, Null when there is none
nextVisited ==
    IF interpolation.status = "running" /\ interpolation.i < Len(FK_TRAVERSAL_ORDER)
    THEN FK_TRAVERSAL_ORDER[interpolation.i + 1]
    ELSE Null

\* C26: FK_TRAVERSAL_ORDER is a permutation of the joints 0..11 that starts
\* with the root 7 and lists every joint after its parent in PARENT_MAP; so
\* at every pass of the loop of interpolatePoints the entry of the parent of
\* the joint visited has been written when it is read, and no call raises.
C26_ParentBeforeChild ==
    /\ Len(FK_TRAVERSAL_ORDER) = numPoints
    /\ {FK_TRAVERSAL_ORDER[k] : k \in 1 .. Len(FK_TRAVERSAL_ORDER)} = PointIds
    /\ FK_TRAVERSAL_ORDER[1] = 7
    /\ \A j \in PointIds \ {7} :
          positionIn(FK_TRAVERSAL_ORDER, PARENT_MAP[j]) < positionIn(FK_TRAVERSAL_ORDER, j)
    /\ interpolation.status # "raised"
    /\ nextVisited \notin {Null, 7} =>
          PARENT_MAP[nextVisited] \in DOMAIN interpolation.resultPoints

\* the loop is about to place the left foot (9) from the entry of the knee
\* (8), written three passes earlier
C26_FootPlacedFromKnee ==
    /\ nextVisited = 9
    /\ DOMAIN interpolation.resultPoints = {7, 2, 8, 10, 1}

\* the joint reached from joint i by following parents k times, Null past
\* the root
RECURSIVE parentAfter(_, _)
parentAfter(i, k) ==
    IF k = 0 \/ i = Null THEN i ELSE parentAfter(PARENT_MAP[i], k - 1)

\* C27: PARENT_MAP is a tree over the 12 joints: joint 7 is the only joint
\* without a parent, every other joint has its one parent in 0..11, and
\* following parents from any joint reaches 7 within 11 steps (no cycle).
\* The entries the interpolator has written hang together along it: each
\* but the root's has the entry of its parent beside it.
C27_ParentMapIsTree ==
    /\ \A j \in DOMAIN interpolation.resultPoints \ {7} :
          PARENT_MAP[j] \in DOMAIN interpolation.resultPoints
    /\ DOMAIN PARENT_MAP = PointIds
    /\ {i \in PointIds : PARENT_MAP[i] = Null} = {7}
    /\ \A i \in PointIds \ {7} : PARENT_MAP[i] \in PointIds
    /\ \A i \in PointIds : \E k \in 0 .. (numPoints - 1) : parentAfter(i, k) = 7

\* a call has returned a pose in which every joint hangs on the entry of its
\* parent: all twelve entries are written
C27_EveryJointPlaced ==
    /\ interpolation.status = "returned"
    /\ DOMAIN interpolation.resultPoints = PointIds
    /\ interpolation.pointsA # interpolation.pointsB

RAbs(r) == <<Abs(r[1]), r[2]>>
RLe(p, q) == ~RLt(q, p)

\* the distance of two result entries that lie on a line along an axis
axisDistance(p, q) ==
    CASE p.x = q.x -> RAbs(RSub(p.y, q.y))
      [] p.y = q.y -> RAbs(RSub(p.x, q.x))

\* the length of the bone of joint j in a pose
boneLength(points, j) ==
    hypot(points[j].x - points[PARENT_MAP[j]].x, points[j].y - points[PARENT_MAP[j]].y)

\* the time of the returned call eased by the easing joint j has in pointsB
easedT(j) == getT(interpolation.pointsB, j, interpolation.linearT)

\* lenA + (lenB - lenA) * e for joint j of the returned call
lerpOfLengths(j) ==
    RAdd(R(boneLength(interpolation.pointsA, j)),
         RMul(R(boneLength(interpolation.pointsB, j) - boneLength(interpolation.pointsA, j)),
              easedT(j)))

\* with e in [0, 1] the length lies between lenA and lenB
lengthWithinEnds(j, length) ==
    LET lenA == boneLength(interpolation.pointsA, j)
        lenB == boneLength(interpolation.pointsB, j)
    IN  (RLe(R(0), easedT(j)) /\ RLe(easedT(j), R(1)))
           => (RLe(RMin(R(lenA), R(lenB)), length) /\ RLe(length, RMax(R(lenA), R(lenB))))

resultDistance(j) ==
    axisDistance(interpolation.resultPoints[j], interpolation.resultPoints[PARENT_MAP[j]])

\* C28: in the pose interpolatePoints(A, B, t) returns, t in [0, 1], the
\* distance between every joint j but the root and its parent equals
\* lenA + (lenB - lenA) * e, with lenA and lenB the lengths of the bone of j
\* in A and B and e the time eased by the easing of j in B; so it lies
\* between lenA and lenB whenever e is in [0, 1].
C28_BoneLengthIsLerp ==
    interpolation.status = "returned" =>
        \A j \in PointIds \ {7} :
            /\ resultDistance(j) = lerpOfLengths(j)
            /\ lengthWithinEnds(j, resultDistance(j))

\* C28 (as the code has it): the distance equals the absolute value of
\* lenA + (lenB - lenA) * e, which is negative when the easing overshoots
\* (easeOutBack, e > 1) towards a much shorter bone: the bone then points
\* the other way.  It lies between lenA and lenB whenever e is in [0, 1].
C28_BoneLengthIsAbsOfLerp ==
    interpolation.status = "returned" =>
        \A j \in PointIds \ {7} :
            /\ resultDistance(j) = RAbs(lerpOfLengths(j))
            /\ lengthWithinEnds(j, resultDistance(j))

\* half way from the square pose to the one whose right hand lies on the
\* elbow, the eased time of the hand is beyond 1 and its blended length
\* negative
C28_HandBeyondElbow ==
    /\ interpolation.status = "returned"
    /\ interpolation.linearT = <<1, 2>>
    /\ RLt(R(1), easedT(6))
    /\ RLt(lerpOfLengths(6), R(0))
    /\ RLt(interpolation.resultPoints[6].x, interpolation.resultPoints[5].x)

\* the (x, y) of the twelve entries returned are those of the pose
sameXY(points) ==
    \A j \in PointIds :
        /\ j \in DOMAIN interpolation.resultPoints
        /\ interpolation.resultPoints[j].x = R(points[j].x)
        /\ interpolation.resultPoints[j].y = R(points[j].y)

\* C29: for poses A and B of 12 joints and every easing of the library (all
\* have f(0) = 0 and f(1) = 1), interpolatePoints(A, B, 0) gives every joint
\* the (x, y) it has in A and interpolatePoints(A, B, 1) the (x, y) it has in
\* B.
C29_EndsAreThePoses ==
    interpolation.status = "returned" =>
        /\ interpolation.linearT = R(0) => sameXY(interpolation.pointsA)
        /\ interpolation.linearT = R(1) => sameXY(interpolation.pointsB)

\* a call at t = 1 from the square pose to the pose with turned bones and
\* an elastic easing has returned
C29_TurnedAtTheEnd ==
    /\ interpolation.status = "returned"
    /\ interpolation.linearT = R(1)
    /\ interpolation.pointsA = SquarePose
    /\ interpolation.pointsB = TurnedPose

-----------------------------------------------------------------------------
(* Properties of the player *)

\* the frames of the loaded animation at or after the time last requested
\* that no earlier frame of the array precedes
earliestAtOrAfter(p) ==
    {i \in 1 .. Len(p.animationData) :
        /\ p.animationData[i].time >= p.requested
        /\ \A k \in 1 .. (i - 1) : p.animationData[k].time < p.requested}

\* the step is a drawFrameAtTime(t) of a loaded animation, 0 <= t <= animationDuration
Drew ==
    /\ lastOp'.op \in {"loadAnimation", "scrubberInput", "loop"}
    /\ lastOp'.outcome = "ok"
    /\ 0 <= player'.requested /\ player'.requested <= player'.animationDuration

\* animationDuration is meta.totalDuration when the file gives it and the
\* time of the last baked frame otherwise
DurationAsFiled ==
    \A data \in PlayerFiles :
        (loadAnimation(data) /\ lastOp'.outcome = "ok")
           => player'.animationDuration =
                 IF "meta" \in DOMAIN data THEN data.meta.totalDuration
                 ELSE data.bakedAnimation[Len(data.bakedAnimation)].time

\* C30: for every time t with 0 <= t <= animationDuration requested by the
\* scrubber or by the playback loop, drawFrameAtTime draws the earliest
\* baked frame whose time is >= t, a frame of the loaded bakedAnimation;
\* animationDuration is meta.totalDuration when the file gives it and the
\* time of the last baked frame otherwise.
C30_PlayerLookup ==
    [][/\ DurationAsFiled
       /\ Drew => player'.drawn \in earliestAtOrAfter(player')]_vars

\* the same for the times up to the time of the last baked frame
C30_PlayerLookupWithinFrames ==
    [][/\ DurationAsFiled
       /\ (Drew /\ player'.requested
                     <= player'.animationData[Len(player'.animationData)].time)
            => player'.drawn \in earliestAtOrAfter(player')]_vars

\* the first frame is drawn for a time after the last baked frame
C30_FirstFrameDrawnPastTheLast ==
    /\ ~player.isNull
    /\ player.requested # Null
    /\ player.requested > player.animationData[Len(player.animationData)].time
    /\ player.requested <= player.animationDuration
    /\ player.drawn = 1

-----------------------------------------------------------------------------
(* Properties of whole timelines: the last duration, the history, the
   current frame *)

\* the durations tried for the last frame: the ends of the slider
LastDurations == {SliderMin, SliderMax}

\* the timeline fs with another duration on its last frame
withLastDuration(fs, d) == [fs EXCEPT ![Len(fs)].duration = d]

\* C31: after a call of getPoseAtTime and after an export, for the timeline
\* held and every timeline that differs from it only in the duration of the
\* last frame, the total duration of playbackLoop, the total duration of
\* showExportModal and the outcome of getPoseAtTime at every time are the
\* same, and the bakedAnimation just exported is the one the export of the
\* other timeline bakes
C31_LastDurationUnused ==
    lastOp.op \in {"getPoseAtTime", "showExportModal"} =>
        \A d \in LastDurations :
            LET other == withLastDuration(frames, d)
            IN  /\ totalDurationOf(other) = totalDurationOf(frames)
                /\ bakeTotalDuration(inSteps(other)) = bakeTotalDuration(inSteps(frames))
                /\ \A t \in SampleTimes : getPoseAtTime(other, t) = getPoseAtTime(frames, t)
                /\ Exported =>
                       bakeFrom(inSteps(other), playbackMode, 0, <<>>)
                         = Baked(exportOutput.bakedAnimation)

\* C31 witness: an export with more than one sample of a timeline of three
\* frames, after a pose was returned
C31_ExportedThreeFrames ==
    /\ Exported
    /\ Len(frames) = 3
    /\ Len(exportOutput.bakedAnimation) > 1
    /\ pose.status = "returned"

\* the snapshot on top of the undo stack after a step
topOfStack == stack'[Len(stack')]

\* C32 as stated: every step of a handler other than undo and redo that
\* changes the timeline leaves on top of the undo stack a snapshot of the
\* frames and the current frame index it found, which one undo restores
C32_ChangeIsUndoable ==
    [][(frames' # frames /\ lastOp'.op \notin {"undo", "redo"}) =>
          /\ Len(stack') > 0
          /\ topOfStack.frames = frames
          /\ topOfStack.currentFrameIndex = currentFrameIndex]_vars

\* C32 for the handlers that call History.saveState (addNewFrame,
\* deleteFrame, handleMouseDown, the easing select and the passthrough box):
\* each leaves the snapshot _createSnapshot makes of the state it found on
\* top of the undo stack, and empties the redo stack
C32_SavingHandlersPushSnapshot ==
    [][(/\ lastOp'.op \in {"addNewFrame", "deleteFrame", "handleMouseDown",
                           "easingChange", "passthroughChange"}
        /\ lastOp'.outcome # "rejected") =>
          /\ Len(stack') > 0
          /\ topOfStack = createSnapshot
          /\ redoStack' = <<>>]_vars

\* C32: the slider has changed a duration while the undo stack is empty
C32_SliderMovedWithoutSnapshot ==
    /\ lastOp.op = "durationInput"
    /\ frames[1].duration # DefaultDuration
    /\ stack = <<>>

\* C33: the undo stack holds at most maxSize snapshots, and the undo and
\* redo stacks together hold at most maxSize
C33_HistoryBounded ==
    /\ Len(stack) <= maxSize
    /\ Len(stack) + Len(redoStack) <= maxSize

\* C33 witness: the undo stack is full again after a redo, its oldest
\* snapshot (the one taken with no point selected) having been dropped
C33_FullAfterRedo ==
    /\ lastOp.op = "redo"
    /\ Len(stack) = maxSize
    /\ stack[1].selectedPointIndex # Null

\* C34 as stated: at most one playbackLoop callback is pending at any time
C34_OneCallbackPending == pending <= 1

\* C34: a start queues one callback and a callback queues at most the one
\* that replaces it, so the count grows only by a start
C34_OneCallbackPerStart ==
    [][/\ pending' <= pending + 1
       /\ pending' > pending => lastOp'.op = "startPlayback"
       /\ lastOp'.op = "stopPlayback" => pending' = pending]_vars

\* C34: two tick chains run: a callback has ticked and queued its successor
\* while another callback is pending
C34_TwoChainsRunning ==
    /\ lastOp = Op("playbackLoop", "ok")
    /\ isPlaying
    /\ pending = 2

-----------------------------------------------------------------------------
(* Properties of the sampler on ignored and on keyed values *)

\* the timeline fs with other values stored for joint j at keyframe k
withStored(fs, k, j, v) ==
    [fs EXCEPT ![k + 1].points[j] = [@ EXCEPT !.x = v[1], !.y = v[2], !.easing = v[3]]]

\* values tried in an ignored point: other coordinates, with a known easing
\* and with a name that is no key of EasingFunctions
OtherStored == {<<999, 5, "easeOutBounce">>, <<-40, 700, "noSuchEasing">>}

\* C35: after a call getPoseAtTime(t), for every keyframe k >= 1 and every
\* joint j ignored at k, the call has the outcome that the same call has on
\* the timeline with other x, y and easing stored for j at k
C35_IgnoredValueUnused ==
    Sampled =>
        \A k \in 1 .. (Len(frames) - 1) : \A j \in PointIds :
            FrameAt(frames, k).points[j].isIgnored =>
                \A v \in OtherStored :
                    getPoseAtTime(withStored(frames, k, j, v), sampleTime) = pose

\* C35 witness: joint 0 is ignored at every keyframe of a timeline of three,
\* and the pose sampled after the start of the last one holds the value
\* stored at keyframe 0
C35_FallbackToKeyframeZero ==
    /\ lastOp = Op("getPoseAtTime", "ok")
    /\ Len(frames) = 3
    /\ \A k \in 0 .. 2 : FrameAt(frames, k).points[0].isIgnored
    /\ sampleTime >= lastStart(frames)
    /\ pose.points[0].x = R(FrameAt(frames, 0).points[0].x)
    /\ FrameAt(frames, 0).points[0].x # FrameAt(frames, 2).points[0].x

\* the call sampled the start time of keyframe k, which keys joint j, on a
\* timeline of positive durations
SampledAtKey(j, k) ==
    /\ Sampled
    /\ \A i \in 1 .. Len(frames) : frames[i].duration > 0
    /\ ~storedPoint(k, j).isIgnored
    /\ sampleTime = startOf(k)

\* C36 as stated: the call getPoseAtTime(start time of keyframe k) returns,
\* for every joint j keyed at k, exactly the (x, y) stored at k
C36_KeyframeExact ==
    \A k \in 0 .. (Len(frames) - 1) : \A j \in PointIds :
        SampledAtKey(j, k) =>
            /\ pose.status = "returned"
            /\ posedAt(pose, j) = <<R(storedPoint(k, j).x), R(storedPoint(k, j).y)>>

\* C36 for the calls that return a pose: every joint j keyed at k is
\* returned at exactly the (x, y) stored at k
C36_KeyframeExactWhenReturned ==
    \A k \in 0 .. (Len(frames) - 1) : \A j \in PointIds :
        (SampledAtKey(j, k) /\ pose.status = "returned") =>
            posedAt(pose, j) = <<R(storedPoint(k, j).x), R(storedPoint(k, j).y)>>

\* C36: a call at the start time of keyframe 0, in which every joint is
\* keyed, has raised a ReferenceError
C36_RaisedAtKeyframe ==
    /\ \A j \in PointIds : SampledAtKey(j, 0)
    /\ pose.status = "ReferenceError"

-----------------------------------------------------------------------------
(* Properties of the current frame index and of the history, over Spec,
   SpecLoad and SpecHistory *)

\* C37: the current frame index is an index of the timeline
C37_CurrentFrameInRange ==
    /\ 0 <= currentFrameIndex
    /\ currentFrameIndex < Len(frames)

\* C37 witness: the last of two frames was current and has been deleted; the
\* current frame is the one that is left
C37_LastFrameDeleted ==
    /\ lastOp.op = "deleteFrame"
    /\ lastOp.outcome # "rejected"
    /\ Len(frames) = 1
    /\ stack[Len(stack)].currentFrameIndex = 1
    /\ currentFrameIndex = 0

\* no coordinate of the frames held is NaN
NoNaN ==
    \A i \in 1 .. Len(frames) : \A p \in DOMAIN frames[i].points :
        frames[i].points[p].x # NaN /\ frames[i].points[p].y # NaN

\* C38 as stated: where the undo stack is not empty, an undo followed at
\* once by a redo leaves the frames, the two indices and both stacks as they
\* were; where the redo stack is not empty, so does a redo followed at once
\* by an undo
C38_UndoRedoInverse ==
    /\ Len(stack) # 0 => redoOf(undoOf(held)) = held
    /\ Len(redoStack) # 0 => undoOf(redoOf(held)) = held

\* C38 for frames that hold no NaN coordinate
C38_UndoRedoInverseOnNumbers ==
    NoNaN => C38_UndoRedoInverse

\* C38: an undo can be taken on frames with a NaN coordinate
C38_UndoOfNaN ==
    /\ Len(stack) # 0
    /\ ~NoNaN
    /\ redoOf(undoOf(held)).frames # frames

\* C40: in the player at most one loop callback is pending and none outside
\* playback; a callback that runs outside playback leaves currentTime as it
\* was; a click on the play button with no animation loaded leaves
\* isPlaying false and queues nothing
C40_PlayerCallbacks ==
    [][/\ Cardinality(player'.pending) <= 1
       /\ ~player'.isPlaying => player'.pending = {}
       /\ (lastOp'.op = "loop" /\ ~player.isPlaying) =>
              player'.currentTime = player.currentTime
       /\ (lastOp'.op = "playPause" /\ player.isNull) =>
              (~player'.isPlaying /\ player'.pending = {})]_vars

\* C40 witness: playback was paused by the button after the loop had
\* advanced the time, started again, and one callback is pending
C40_PlayingAgain ==
    /\ lastOp = Op("playPause", "ok")
    /\ player.isPlaying
    /\ player.currentTime > 0
    /\ player.requestID > 1
    /\ Cardinality(player.pending) = 1

-----------------------------------------------------------------------------
(* Properties of the points arrays the frames and the snapshots hold *)

WritingHandlers == {"handleMouseMove", "easingChange", "passthroughChange"}

\* the current frame holds the clone addNewFrame made of the rest pose, the
\* frame it was cloned from is before it, and a snapshot is on the undo stack
ClonedFrameCurrent ==
    /\ Len(frames) = 3
    /\ currentFrameIndex = 1
    /\ frames[1].points = getInitialPose
    /\ Len(stack) = 1
    /\ Len(stack[1].frames) = 2
    /\ stack[1].frames[1].points = getInitialPose

====
